---- MODULE Spec2Model ----
(***************************************************************************)
(* A model of the GPU kernel suite of gpu/cuda_utils.cu: the three         *)
(* matrix-multiply strategies, the tiled transpose, the row sum and        *)
(* broadcast, the global max with its compare-and-swap merge, the          *)
(* inverse-CDF sampler and the softmaxSampleCUDA pipeline around it, the   *)
(* elementwise operators, the embedding gather, one block of the tiled     *)
(* matmul kernel thread by thread, the device allocations of the host      *)
(* entry points, and the barriers and retry loops of the kernels under     *)
(* fair scheduling.                                                        *)
(*                                                                         *)
(* Abstractions, stated once:                                              *)
(*  - a float is an integer, so sums and products are exact and the order  *)
(*    of a summation does not show; the global max works on a miniature    *)
(*    sign-magnitude format whose largest magnitude is INFINITY;           *)
(*  - a buffer of n floats is a function on 0..n-1; an access outside it   *)
(*    is recorded in oob, a read outside it yields arg.junk (the unknown   *)
(*    content of foreign or uninitialised memory, drawn in Init);          *)
(*  - the launch geometry constants of the source (tile sizes, grid and    *)
(*    block sizes) are scaled down; each is a named definition below that  *)
(*    cites the source value;                                              *)
(*  - a data-parallel kernel whose threads write disjoint addresses is     *)
(*    one action: the set of every thread's accesses is computed and       *)
(*    applied, and wlog/rlog keep one event per access so that "exactly    *)
(*    once" is a property of the log.  The cross-block merge of the global *)
(*    max is modelled step by step.                                        *)
(***************************************************************************)
EXTENDS Integers, Sequences, FiniteSets, TLC

VARIABLES
    arg,       \* the call's arguments: dimensions, input buffers, junk
    mem,       \* the buffers the operations write, by name
    ran,       \* the operations that have returned
    wlog,      \* write events  [op, buf, t, k, a]
    rlog,      \* read events   [op, buf, t, k, a]
    oob,       \* accesses outside a buffer [op, buf, a, kind]
    reported,  \* errors an entry point has reported to its caller
    blk        \* per-block state of a kernel modelled step by step

vars == <<arg, mem, ran, wlog, rlog, oob, reported, blk>>

----------------------------------------------------------------------------
(* Bounds of the model. *)

\* largest row or column count drawn for a matrix
MaxDim == 3
\* input matrices are drawn from the seeds 0..MaxSeed
MaxSeed == 1
\* side of the shared-memory tile of the tiled matmul and of the 2-D thread
\* block of both matmul kernels (32 in the source, cuda_utils.cu:38,51,91)
TILE_SIZE == 2

\* largest row or column count drawn for the transpose
MaxTransposeDim == 5
\* blockDim.y of the transpose launch, TILE_DIM / 4 (16 in the source,
\* cuda_utils.cu:222): each thread moves 4 rows of the tile
TransposeBlockRows == 1

\* gridDim.x of the row-sum launch (128 in the source, cuda_utils.cu:166)
SumGridDim == 2
\* blockDim.x of the row-sum launch (256 in the source, cuda_utils.cu:165)
SumBlockDim == 2
\* side of the 2-D thread block of the elementwise kernels (32 in the
\* source, cuda_utils.cu:355)
ElemBlockDim == 2

\* gridDim.x of the global-max launch (128 in the source, cuda_utils.cu:313)
MaxGridDim == 2
\* log2 of blockDim.x of the global-max launch (8 in the source: 256 threads,
\* cuda_utils.cu:312); the tree reduction halves the stride from blockDim.x / 2
MaxBlockLog == 1
\* largest length drawn for the global max
MaxLen == 5
\* magnitude bits of a float's bit pattern (31 in the source's 32-bit float)
FloatMagBits == 3

\* largest width drawn for a probability row
MaxWidth == 3
\* RAND_MAX of the C library, scaled: rand() returns 0..RAND_MAX
RAND_MAX == 3
\* a probability is a multiple of 1 / ProbUnit (the resolution of a float
\* in [0, 1], scaled)
ProbUnit == 4

JunkVals == {0, 9}

----------------------------------------------------------------------------
(* Arithmetic of the source language. *)

\* C integer division truncates toward zero.
CDiv(a, b) ==
    IF a >= 0 THEN a \div b ELSE -((-a) \div b)

CEIL_DIV(a, b) == CDiv(a + b - 1, b)

\* rand(): a linear congruential generator, n-th value after srand(seed).
RECURSIVE Rand(_, _)
Rand(seed, n) ==
    IF n = 0 THEN seed ELSE (5 * Rand(seed, n - 1) + 3) % 16

\* generateRandomMatrix: rows*cols successive values of rand(), scaled.
generateRandomMatrix(seed, n) ==
    [i \in 0 .. n - 1 |-> (Rand(seed, i + 1) % 5) - 2]

InBuf(size, a) == a >= 0 /\ a < size

\* The value a load of buf[a] yields.
Load(buf, size, a) == IF InBuf(size, a) THEN buf[a] ELSE arg.junk

\* The buffer after the writes W = {[a, v, ...]} of a kernel.
ApplyWrites(buf, size, W) ==
    [i \in 0 .. size - 1 |->
        IF \E w \in W : w.a = i
        THEN (CHOOSE w \in W : w.a = i).v
        ELSE buf[i]]

\* The threads of a launch <<<dim3(gx, gy), dim3(bx, by)>>>: a grid with a
\* zero dimension is an invalid configuration and runs no thread.
Threads(gx, gy, bx, by) ==
    IF gx <= 0 \/ gy <= 0 THEN {}
    ELSE { [bx |-> p, by |-> q, tx |-> x, ty |-> y] :
             p \in 0 .. gx - 1, q \in 0 .. gy - 1,
             x \in 0 .. bx - 1, y \in 0 .. by - 1 }

----------------------------------------------------------------------------
(* Matrix multiply: C = A * transpose(B).                                   *)
(* arg = [aRows, aCols, bRows, bCols, A, B, junk]; mem = [naive, tiled,     *)
(* cublas], the three output buffers of aRows*bRows floats.                 *)

SizeA == arg.aRows * arg.aCols
SizeB == arg.bRows * arg.bCols
SizeC == arg.aRows * arg.bRows

\* faulty variant: the grid rounded down instead of up
MatMulThreadsFloor ==
    Threads(CDiv(arg.bRows, TILE_SIZE), CDiv(arg.aRows, TILE_SIZE),
            TILE_SIZE, TILE_SIZE)
\* dim3 dimBlock(32, 32); dim3 dimGrid(CEIL_DIV(bRows, 32), CEIL_DIV(aRows, 32))
MatMulThreads ==
    Threads(CEIL_DIV(arg.bRows, TILE_SIZE), CEIL_DIV(arg.aRows, TILE_SIZE),
            TILE_SIZE, TILE_SIZE)

\* int row = blockIdx.y * blockDim.y + threadIdx.y
ThreadRow(t) == t.by * TILE_SIZE + t.ty
\* int col = blockIdx.x * blockDim.x + threadIdx.x
ThreadCol(t) == t.bx * TILE_SIZE + t.tx

\* if (row < aRows && col < bRows)
CellGuard(t) == ThreadRow(t) < arg.aRows /\ ThreadCol(t) < arg.bRows

\* A[row * aCols + k]
NaiveAIndex(row, k) == row * arg.aCols + k
\* faulty variant: B read as if it were stored untransposed, aCols x bRows
NaiveBIndexUntransposed(col, k) == k * arg.bRows + col
\* B[col * aCols + k]: the row of B is strided by A's column count
NaiveBIndex(col, k) == col * arg.aCols + k
\* C[row * bRows + col]
CIndex(row, col) == row * arg.bRows + col

\* for (k = 0; k < aCols; ++k) value += A[...] * B[...]
RECURSIVE NaiveDot(_, _, _, _)
NaiveDot(row, col, k, value) ==
    IF k < arg.aCols
    THEN NaiveDot(row, col, k + 1,
                  value + Load(arg.A, SizeA, NaiveAIndex(row, k))
                        * Load(arg.B, SizeB, NaiveBIndex(col, k)))
    ELSE value

\* the store of one thread of matMulCudaKernelNaive
NaiveThreadWrites(t) ==
    IF CellGuard(t)
    THEN {[t |-> t, k |-> 0, a |-> CIndex(ThreadRow(t), ThreadCol(t)),
           v |-> NaiveDot(ThreadRow(t), ThreadCol(t), 0, 0)]}
    ELSE {}

\* the loads of one thread of matMulCudaKernelNaive
NaiveThreadReads(t) ==
    IF CellGuard(t)
    THEN {[buf |-> "A", a |-> NaiveAIndex(ThreadRow(t), k)] : k \in 0 .. arg.aCols - 1}
         \cup
         {[buf |-> "B", a |-> NaiveBIndex(ThreadCol(t), k)] : k \in 0 .. arg.aCols - 1}
    ELSE {}

BufSize(buf) ==
    CASE buf = "A" -> SizeA
      [] buf = "B" -> SizeB
      [] OTHER -> SizeC

\* the accesses of R (loads) and W (stores to C) that fall outside their buffer
OutOfBounds(op, R, W) ==
    {[op |-> op, buf |-> r.buf, a |-> r.a, kind |-> "read"] :
        r \in {x \in R : ~InBuf(BufSize(x.buf), x.a)}}
    \cup
    {[op |-> op, buf |-> "C", a |-> w.a, kind |-> "write"] :
        w \in {x \in W : ~InBuf(SizeC, x.a)}}

WriteEvents(op, buf, W) ==
    {[op |-> op, buf |-> buf, t |-> w.t, k |-> w.k, a |-> w.a] : w \in W}

\* cudaMalloc'ed memory holds whatever was there
Uninitialised(size) == [i \in 0 .. size - 1 |-> arg.junk]

\* matMulCUDANaive: device copies of A and B, kernel into a fresh d_C,
\* d_C copied to out.  Nothing is validated and nothing is reported.
matMulCUDANaive ==
    /\ "naive" \notin ran
    /\ LET T == MatMulThreads
           W == UNION {NaiveThreadWrites(t) : t \in T}
           R == UNION {NaiveThreadReads(t) : t \in T}
           d_C == ApplyWrites(Uninitialised(SizeC), SizeC, W)
       IN  /\ mem' = [mem EXCEPT !.naive = d_C]
           /\ wlog' = wlog \cup WriteEvents("naive", "C", W)
           /\ oob' = oob \cup OutOfBounds("naive", R, W)
    /\ ran' = ran \cup {"naive"}
    /\ UNCHANGED <<arg, rlog, reported, blk>>

\* the tile loop's bound: (aCols - 1) / TILE_SIZE + 1
NumTiles == CDiv(arg.aCols - 1, TILE_SIZE) + 1

\* faulty variant: the A tile loaded without the range test
TiledLoadAUnguarded(t, m) ==
    Load(arg.A, SizeA, ThreadRow(t) * arg.aCols + m * TILE_SIZE + t.tx)
\* As[threadIdx.y][threadIdx.x] = in range ? A[row * aCols + m * TILE + tx] : 0
TiledLoadA(t, m) ==
    IF m * TILE_SIZE + t.tx < arg.aCols /\ ThreadRow(t) < arg.aRows
    THEN Load(arg.A, SizeA, ThreadRow(t) * arg.aCols + m * TILE_SIZE + t.tx)
    ELSE 0

\* Bs[threadIdx.y][threadIdx.x] = in range ? B[col * aCols + m * TILE + ty] : 0
TiledLoadB(t, m) ==
    IF m * TILE_SIZE + t.ty < arg.aCols /\ ThreadCol(t) < arg.bRows
    THEN Load(arg.B, SizeB, ThreadCol(t) * arg.aCols + m * TILE_SIZE + t.ty)
    ELSE 0

\* the shared tiles of block (bx, by) once every thread of the block has
\* stored its cell for iteration m and passed the first __syncthreads()
TileAs(bx, by, m) ==
    [y \in 0 .. TILE_SIZE - 1 |-> [x \in 0 .. TILE_SIZE - 1 |->
        TiledLoadA([bx |-> bx, by |-> by, tx |-> x, ty |-> y], m)]]
TileBs(bx, by, m) ==
    [y \in 0 .. TILE_SIZE - 1 |-> [x \in 0 .. TILE_SIZE - 1 |->
        TiledLoadB([bx |-> bx, by |-> by, tx |-> x, ty |-> y], m)]]

\* for (k = 0; k < TILE_SIZE; k++) value += As[ty][k] * Bs[k][tx]
RECURSIVE TiledInner(_, _, _, _, _)
TiledInner(As, Bs, t, k, value) ==
    IF k < TILE_SIZE
    THEN TiledInner(As, Bs, t, k + 1, value + As[t.ty][k] * Bs[k][t.tx])
    ELSE value

\* for (m = 0; m < (aCols - 1) / TILE_SIZE + 1; m++) { load; sync; compute; sync }
RECURSIVE TiledLoop(_, _, _)
TiledLoop(t, m, value) ==
    IF m < NumTiles
    THEN TiledLoop(t, m + 1,
                   TiledInner(TileAs(t.bx, t.by, m), TileBs(t.bx, t.by, m), t, 0, value))
    ELSE value

\* the store of one thread of matMulCudaKernelOptimized
TiledThreadWrites(t) ==
    IF CellGuard(t)
    THEN {[t |-> t, k |-> 0, a |-> CIndex(ThreadRow(t), ThreadCol(t)),
           v |-> TiledLoop(t, 0, 0)]}
    ELSE {}

\* the global loads of one thread of matMulCudaKernelOptimized
TiledThreadReads(t) ==
    {[buf |-> "A", a |-> ThreadRow(t) * arg.aCols + m * TILE_SIZE + t.tx] :
        m \in {n \in 0 .. NumTiles - 1 :
                 n * TILE_SIZE + t.tx < arg.aCols /\ ThreadRow(t) < arg.aRows}}
    \cup
    {[buf |-> "B", a |-> ThreadCol(t) * arg.aCols + m * TILE_SIZE + t.ty] :
        m \in {n \in 0 .. NumTiles - 1 :
                 n * TILE_SIZE + t.ty < arg.aCols /\ ThreadCol(t) < arg.bRows}}

\* matMulCUDA: the tiled kernel on the caller's device buffers, in place
\* on out.  Nothing is validated and nothing is reported.
matMulCUDA ==
    /\ "tiled" \notin ran
    /\ LET T == MatMulThreads
           W == UNION {TiledThreadWrites(t) : t \in T}
           R == UNION {TiledThreadReads(t) : t \in T}
       IN  /\ mem' = [mem EXCEPT !.tiled = ApplyWrites(mem.tiled, SizeC, W)]
           /\ wlog' = wlog \cup WriteEvents("tiled", "C", W)
           /\ oob' = oob \cup OutOfBounds("tiled", R, W)
    /\ ran' = ran \cup {"tiled"}
    /\ UNCHANGED <<arg, rlog, reported, blk>>

Max(a, b) == IF a >= b THEN a ELSE b

\* cublasSgemm's argument check (CUBLAS_STATUS_INVALID_VALUE otherwise, and
\* then C is not touched): the leading dimensions must hold the operands.
SgemmArgsValid(transa, transb, m, n, k, lda, ldb, ldc) ==
    /\ m >= 0 /\ n >= 0 /\ k >= 0
    /\ lda >= Max(1, IF transa = "N" THEN m ELSE k)
    /\ ldb >= Max(1, IF transb = "N" THEN k ELSE n)
    /\ ldc >= Max(1, m)

\* element (i, l) of op(X) for a column-major X with leading dimension ld
SgemmOp(trans, X, size, ld, i, l) ==
    IF trans = "N" THEN Load(X, size, i + l * ld) ELSE Load(X, size, l + i * ld)

RECURSIVE SgemmDot(_, _, _, _, _, _)
SgemmDot(g, i, j, l, k, value) ==
    IF l < k
    THEN SgemmDot(g, i, j, l + 1, k,
                  value + SgemmOp(g.transa, g.X, g.sizeX, g.lda, i, l)
                        * SgemmOp(g.transb, g.Y, g.sizeY, g.ldb, l, j))
    ELSE value

\* faulty variant: the result stored row-major, element (i, j) at i * ldc + j
SgemmStoreRowMajor(g, i, j) == i * g.ldc + j
\* element (i, j) of the m x n result is stored column-major at i + j * ldc
SgemmStore(g, i, j) == i + j * g.ldc

\* cublasSgemm with alpha = 1, beta = 0: C(m x n) = op(X) * op(Y), all three
\* column-major.  The set of stores it makes.
cublasSgemm(g) ==
    IF SgemmArgsValid(g.transa, g.transb, g.m, g.n, g.k, g.lda, g.ldb, g.ldc)
    THEN {[t |-> [bx |-> 0, by |-> 0, tx |-> i, ty |-> j], k |-> 0,
           a |-> SgemmStore(g, i, j),
           v |-> SgemmDot(g, i, j, 0, g.k, 0)] :
             i \in 0 .. g.m - 1, j \in 0 .. g.n - 1}
    ELSE {}

\* the loads cublasSgemm makes
cublasSgemmReads(g) ==
    IF SgemmArgsValid(g.transa, g.transb, g.m, g.n, g.k, g.lda, g.ldb, g.ldc)
    THEN {[buf |-> "B",
           a |-> IF g.transa = "N" THEN i + l * g.lda ELSE l + i * g.lda] :
             i \in 0 .. g.m - 1, l \in 0 .. g.k - 1}
         \cup
         {[buf |-> "A",
           a |-> IF g.transb = "N" THEN l + j * g.ldb ELSE j + l * g.ldb] :
             l \in 0 .. g.k - 1, j \in 0 .. g.n - 1}
    ELSE {}

\* the one call of matMulCublas:
\* cublasSgemm(handle, OP_T, OP_N, bRows, aRows, aCols, &one,
\*             d_B, bCols, d_A, aCols, &zero, d_C, bRows)
SgemmCall ==
    [transa |-> "T", transb |-> "N",
     m |-> arg.bRows, n |-> arg.aRows, k |-> arg.aCols,
     X |-> arg.B, sizeX |-> SizeB, lda |-> arg.bCols,
     Y |-> arg.A, sizeY |-> SizeA, ldb |-> arg.aCols,
     ldc |-> arg.bRows]

\* matMulCublas: device copies of A and B, one GEMM into a fresh d_C, d_C
\* copied to out.  The status cublasSgemm returns is dropped.
matMulCublas ==
    /\ "cublas" \notin ran
    /\ LET W == cublasSgemm(SgemmCall)
           R == cublasSgemmReads(SgemmCall)
           d_C == ApplyWrites(Uninitialised(SizeC), SizeC, W)
       IN  /\ mem' = [mem EXCEPT !.cublas = d_C]
           /\ wlog' = wlog \cup WriteEvents("cublas", "C", W)
           /\ oob' = oob \cup OutOfBounds("cublas", R, W)
    /\ ran' = ran \cup {"cublas"}
    /\ UNCHANGED <<arg, rlog, reported, blk>>

\* The caller's matrices: any dimensions up to MaxDim (the entry points take
\* bCols as an argument of its own), contents as the tests generate them, and
\* output buffers that hold something already.
InitMatMul ==
    /\ \E ar \in 0 .. MaxDim, ac \in 0 .. MaxDim, br \in 0 .. MaxDim,
          bc \in 0 .. MaxDim, seed \in 0 .. MaxSeed, junk \in JunkVals :
          arg = [aRows |-> ar, aCols |-> ac, bRows |-> br, bCols |-> bc,
                 A |-> generateRandomMatrix(seed, ar * ac),
                 B |-> generateRandomMatrix(seed + 1, br * bc),
                 junk |-> junk]
    /\ mem = [naive  |-> [i \in 0 .. SizeC - 1 |-> arg.junk],
              tiled  |-> [i \in 0 .. SizeC - 1 |-> arg.junk],
              cublas |-> [i \in 0 .. SizeC - 1 |-> arg.junk]]
    /\ ran = {}
    /\ wlog = {}
    /\ rlog = {}
    /\ oob = {}
    /\ reported = {}
    /\ blk = <<>>

NextMatMul == matMulCUDANaive \/ matMulCUDA \/ matMulCublas

SpecMatMul == InitMatMul /\ [][NextMatMul]_vars

----------------------------------------------------------------------------
(* Claims about the matrix multiply, checked under SpecMatMul.              *)

\* element (i, k) of the row-major aRows x aCols matrix A, and element
\* (j, k) of the row-major bRows x bCols matrix B
MatA(i, k) == arg.A[i * arg.aCols + k]
MatB(j, k) == arg.B[j * arg.bCols + k]

\* sum over k < n of A[i][k] * B[j][k]
RECURSIVE DotABt(_, _, _)
DotABt(i, j, n) ==
    IF n = 0 THEN 0 ELSE DotABt(i, j, n - 1) + MatA(i, n - 1) * MatB(j, n - 1)

Cells == {<<i, j>> : i \in 0 .. arg.aRows - 1, j \in 0 .. arg.bRows - 1}

\* the number of stores operation op made to address a of the output
Stores(op, a) == Cardinality({e \in wlog : e.op = op /\ e.a = a})

\* C1: when aCols = bCols, after matMulCUDANaive every cell (i, j) of the
\* aRows x bRows output holds the sum over k < aCols of A[i][k] * B[j][k],
\* whatever the buffers held before, and each output cell was stored exactly
\* once and nothing else was stored.
C1_NaiveComputesABt ==
    ("naive" \in ran /\ arg.aCols = arg.bCols) =>
        /\ DOMAIN mem.naive = 0 .. SizeC - 1
        /\ \A c \in Cells :
              /\ mem.naive[c[1] * arg.bRows + c[2]] = DotABt(c[1], c[2], arg.aCols)
              /\ Stores("naive", c[1] * arg.bRows + c[2]) = 1
        /\ \A e \in wlog : e.op = "naive" => InBuf(SizeC, e.a)

\* a run of the naive kernel on a grid of several blocks with partial ones,
\* over buffers that held junk
C1_Witness ==
    /\ "naive" \in ran
    /\ arg.aCols = arg.bCols /\ arg.aCols >= 2
    /\ arg.aRows > TILE_SIZE /\ arg.bRows > TILE_SIZE
    /\ arg.junk # 0
    /\ \E a \in DOMAIN mem.naive : mem.naive[a] # 0

\* C2: when aCols = bCols, whatever the dimensions (multiples of the tile
\* size or not), the tiled kernel leaves in every output cell the value the
\* naive kernel leaves there, stores to no address outside the aRows x bRows
\* output and loads from none outside A and B; every cell of the shared tiles
\* whose element is out of range holds 0.
C2_TiledEqualsNaive ==
    ({"naive", "tiled"} \subseteq ran /\ arg.aCols = arg.bCols) =>
        /\ \A a \in 0 .. SizeC - 1 : mem.tiled[a] = mem.naive[a]
        /\ \A e \in wlog : e.op = "tiled" => InBuf(SizeC, e.a)
        /\ \A e \in oob : e.op # "tiled"
        /\ \A t \in MatMulThreads, m \in 0 .. NumTiles - 1 :
              /\ (m * TILE_SIZE + t.tx >= arg.aCols \/ ThreadRow(t) >= arg.aRows)
                    => TileAs(t.bx, t.by, m)[t.ty][t.tx] = 0
              /\ (m * TILE_SIZE + t.ty >= arg.aCols \/ ThreadCol(t) >= arg.bRows)
                    => TileBs(t.bx, t.by, m)[t.ty][t.tx] = 0

\* both kernels have run on dimensions none of which is a multiple of the
\* tile size, with more than one tile along aCols
C2_Witness ==
    /\ {"naive", "tiled"} \subseteq ran
    /\ arg.aCols = arg.bCols /\ arg.aCols > TILE_SIZE
    /\ arg.aCols % TILE_SIZE # 0
    /\ arg.aRows % TILE_SIZE # 0 /\ arg.bRows % TILE_SIZE # 0
    /\ arg.junk # 0
    /\ \E a \in DOMAIN mem.tiled : mem.tiled[a] # 0

\* C3: when aCols = bCols, for every aRows and bRows, after matMulCublas
\* the output buffer holds the row-major aRows x bRows matrix A * B^T.
C3_CublasComputesABt ==
    ("cublas" \in ran /\ arg.aCols = arg.bCols) =>
        \A c \in Cells :
            mem.cublas[c[1] * arg.bRows + c[2]] = DotABt(c[1], c[2], arg.aCols)

\* C3, the part the code does satisfy: when the GEMM accepts its arguments
\* (aCols = bCols >= 1) the output is A * B^T, each cell stored once, with no
\* access out of bounds.
CublasComputesABtNonDegenerate ==
    ("cublas" \in ran /\ arg.aCols = arg.bCols /\ arg.aCols >= 1) =>
        /\ \A c \in Cells :
              /\ mem.cublas[c[1] * arg.bRows + c[2]] = DotABt(c[1], c[2], arg.aCols)
              /\ Stores("cublas", c[1] * arg.bRows + c[2]) = 1
        /\ \A e \in oob : e.op # "cublas"

\* C4: an entry point called with aCols # bCols reports DimensionMismatch
\* and makes no access outside A, B or C.
C4_MismatchReported ==
    (ran # {} /\ arg.aCols # arg.bCols) =>
        /\ "DimensionMismatch" \in reported
        /\ oob = {}

\* C5: with aRows = 0 or bRows = 0 the naive and the tiled kernel store
\* nothing and make no access out of bounds; with aCols = 0 and aRows,
\* bRows > 0 each of them stores 0 to every one of the aRows x bRows output
\* cells.
C5_ZeroDimensions ==
    \A op \in ran \cap {"naive", "tiled"} :
        /\ (arg.aRows = 0 \/ arg.bRows = 0) =>
              /\ \A e \in wlog : e.op # op
              /\ \A e \in oob : e.op # op
        /\ (arg.aCols = 0 /\ arg.aRows > 0 /\ arg.bRows > 0) =>
              \A a \in 0 .. SizeC - 1 :
                  /\ mem[op][a] = 0
                  /\ Stores(op, a) = 1

\* both kernels have run with aCols = 0 on a non-empty output that held junk
C5_Witness ==
    /\ {"naive", "tiled"} \subseteq ran
    /\ arg.aCols = 0 /\ arg.bCols = 0
    /\ arg.aRows > TILE_SIZE /\ arg.bRows > 0
    /\ arg.junk # 0
    /\ \A a \in 0 .. SizeC - 1 : mem.tiled[a] = 0 /\ mem.naive[a] = 0

----------------------------------------------------------------------------
(* Transpose.                                                               *)
(* arg = [rows, cols, input, junk]; mem = [d_output, out]: the device       *)
(* buffer the kernel stores to and the caller's buffer; blk = [pc, entry,   *)
(* todo]: the launch in flight and the blocks that have not run yet.        *)

\* const int TILE_DIM = 64, four rows per thread: dimBlock(TILE_DIM, TILE_DIM / 4)
TILE_DIM == 4 * TransposeBlockRows

SizeM == arg.rows * arg.cols

\* __shared__ float tile[TILE_DIM][TILE_DIM + 1], flattened row-major
TileCell(y, x) == y * (TILE_DIM + 1) + x
TileSize == TILE_DIM * (TILE_DIM + 1)

\* dim3 dimGrid(CEIL_DIV(a.cols, TILE_DIM), CEIL_DIV(a.rows, TILE_DIM))
TransposeBlocks ==
    {<<p, q>> : p \in 0 .. CEIL_DIV(arg.cols, TILE_DIM) - 1,
                q \in 0 .. CEIL_DIV(arg.rows, TILE_DIM) - 1}

\* the threads of block b = <<blockIdx.x, blockIdx.y>>
TransposeBlockThreads(b) ==
    {[bx |-> b[1], by |-> b[2], tx |-> x, ty |-> y] :
        x \in 0 .. TILE_DIM - 1, y \in 0 .. TransposeBlockRows - 1}

\* phase 1: xIndex = blockIdx.x * TILE_DIM + threadIdx.x,
\*          yIndex = blockIdx.y * TILE_DIM + 4 * threadIdx.y
ReadX(t) == t.bx * TILE_DIM + t.tx
ReadY(t) == t.by * TILE_DIM + 4 * t.ty

\* if (xIndex < cols) if (yIndex + j < rows)
\*     tile[localY * 4 + j][localX] = input[xIndex + (yIndex + j) * cols]
\* the slots j of thread t that pass the tests
ReadSlots(t) ==
    IF ReadX(t) < arg.cols
    THEN {j \in 0 .. 3 : ReadY(t) + j < arg.rows}
    ELSE {}

InputIndex(t, j) == ReadX(t) + (ReadY(t) + j) * arg.cols

\* the loads of input by the threads of block b, one event per load
TransposeReads(b) ==
    UNION {{[t |-> t, k |-> j, a |-> InputIndex(t, j)] : j \in ReadSlots(t)} :
              t \in TransposeBlockThreads(b)}

\* the shared tile of block b at the __syncthreads(): the cells phase 1
\* stored hold the input, the others whatever shared memory held
TransposeTile(b) ==
    ApplyWrites([i \in 0 .. TileSize - 1 |-> arg.junk], TileSize,
        UNION {{[a |-> TileCell(t.ty * 4 + j, t.tx),
                 v |-> Load(arg.input, SizeM, InputIndex(t, j))] : j \in ReadSlots(t)} :
                  t \in TransposeBlockThreads(b)})

\* phase 2: xIndex = blockIdx.y * TILE_DIM + threadIdx.x,
\*          yIndex = blockIdx.x * TILE_DIM + 4 * threadIdx.y
WriteX(t) == t.by * TILE_DIM + t.tx
WriteY(t) == t.bx * TILE_DIM + 4 * t.ty

\* faulty variant: phase 2 tested against the dimensions of the input, not of the
\* transposed output
WriteSlotsUnswapped(t) ==
    IF WriteX(t) < arg.cols
    THEN {j \in 0 .. 3 : WriteY(t) + j < arg.rows}
    ELSE {}
\* if (xIndex < rows) if (yIndex + j < cols)
\*     output[(yIndex + j) * rows + xIndex] = tile[localX][localY * 4 + j]
WriteSlots(t) ==
    IF WriteX(t) < arg.rows
    THEN {j \in 0 .. 3 : WriteY(t) + j < arg.cols}
    ELSE {}

OutputIndex(t, j) == (WriteY(t) + j) * arg.rows + WriteX(t)

\* the stores to output by the threads of block b
TransposeWrites(b) ==
    LET tile == TransposeTile(b)
    IN  UNION {{[t |-> t, k |-> j, a |-> OutputIndex(t, j),
                 v |-> tile[TileCell(t.tx, t.ty * 4 + j)]] : j \in WriteSlots(t)} :
                  t \in TransposeBlockThreads(b)}

\* the buffer the kernel of the launch in flight stores to
TransposeTarget == IF blk.entry = "util" THEN "d_output" ELSE "out"

\* transposeCUDA_util up to the launch: cudaMalloc of d_input and d_output,
\* the copy of a.dat to d_input, transposeKernel<<<dimGrid, dimBlock>>>
transposeCUDA_util ==
    /\ blk.pc = "idle"
    /\ blk' = [pc |-> "running", entry |-> "util", todo |-> TransposeBlocks]
    /\ mem' = [mem EXCEPT !.d_output = Uninitialised(SizeM)]
    /\ UNCHANGED <<arg, ran, wlog, rlog, oob, reported>>

\* transposeCUDA: the kernel launched on the caller's device buffers
transposeCUDA ==
    /\ blk.pc = "idle"
    /\ blk' = [pc |-> "running", entry |-> "direct", todo |-> TransposeBlocks]
    /\ UNCHANGED <<arg, mem, ran, wlog, rlog, oob, reported>>

\* one block of transposeKernel: phase 1, __syncthreads(), phase 2.  The
\* blocks of a grid run in any order.
transposeKernel(b) ==
    /\ blk.pc = "running"
    /\ b \in blk.todo
    /\ LET R == TransposeReads(b)
           W == TransposeWrites(b)
           dst == TransposeTarget
       IN  /\ mem' = [mem EXCEPT ![dst] = ApplyWrites(mem[dst], SizeM, W)]
           /\ rlog' = rlog \cup
                 {[op |-> "transpose", buf |-> "input", t |-> r.t, k |-> r.k, a |-> r.a] :
                     r \in R}
           /\ wlog' = wlog \cup WriteEvents("transpose", "output", W)
           /\ oob' = oob
                 \cup {[op |-> "transpose", buf |-> "input", a |-> r.a, kind |-> "read"] :
                          r \in {x \in R : ~InBuf(SizeM, x.a)}}
                 \cup {[op |-> "transpose", buf |-> "output", a |-> w.a, kind |-> "write"] :
                          w \in {x \in W : ~InBuf(SizeM, x.a)}}
    /\ blk' = [blk EXCEPT !.todo = blk.todo \ {b}]
    /\ UNCHANGED <<arg, ran, reported>>

\* the kernel has finished: transposeCUDA_util's cudaMemcpy of d_output to
\* out.dat waits for it; transposeCUDA's caller reads out.dat after it
transposeJoin ==
    /\ blk.pc = "running"
    /\ blk.todo = {}
    /\ mem' = IF blk.entry = "util" THEN [mem EXCEPT !.out = mem.d_output] ELSE mem
    /\ blk' = [blk EXCEPT !.pc = "done"]
    /\ ran' = ran \cup {"transpose"}
    /\ UNCHANGED <<arg, wlog, rlog, oob, reported>>

\* a rows x cols input and a distinct output buffer of the same size that
\* holds something already
InitTranspose ==
    /\ \E r \in 0 .. MaxTransposeDim, c \in 0 .. MaxTransposeDim,
          seed \in 0 .. MaxSeed, junk \in JunkVals :
          arg = [rows |-> r, cols |-> c,
                 input |-> generateRandomMatrix(seed, r * c), junk |-> junk]
    /\ mem = [d_output |-> <<>>, out |-> [i \in 0 .. SizeM - 1 |-> arg.junk]]
    /\ blk = [pc |-> "idle", entry |-> "none", todo |-> {}]
    /\ ran = {}
    /\ wlog = {}
    /\ rlog = {}
    /\ oob = {}
    /\ reported = {}

NextTranspose ==
    \/ transposeCUDA_util
    \/ transposeCUDA
    \/ \E b \in blk.todo : transposeKernel(b)
    \/ transposeJoin

SpecTranspose == InitTranspose /\ [][NextTranspose]_vars

\* C6: once the transpose of a rows x cols input into a distinct output
\* buffer has finished, output[c * rows + r] = input[r * cols + c] for every
\* r < rows and c < cols; every input element was loaded exactly once and
\* every output element stored exactly once; and at no time was an address
\* at or beyond rows * cols loaded or stored in either buffer.
C6_TransposeExact ==
    /\ \A e \in rlog \cup wlog : InBuf(SizeM, e.a)
    /\ oob = {}
    /\ "transpose" \in ran =>
          /\ \A r \in 0 .. arg.rows - 1, c \in 0 .. arg.cols - 1 :
                mem.out[c * arg.rows + r] = arg.input[r * arg.cols + c]
          /\ \A a \in 0 .. SizeM - 1 :
                /\ Cardinality({e \in rlog : e.a = a}) = 1
                /\ Cardinality({e \in wlog : e.a = a}) = 1

\* a finished transpose of a matrix that is not square, over a grid of
\* several blocks with partial tiles on both axes
C6_Witness ==
    /\ "transpose" \in ran
    /\ arg.rows > TILE_DIM /\ arg.cols > TILE_DIM
    /\ arg.rows % TILE_DIM # 0 /\ arg.cols % TILE_DIM # 0
    /\ arg.junk # 0
    /\ \E a \in DOMAIN mem.out : mem.out[a] # 0
    /\ Cardinality(wlog) = SizeM

----------------------------------------------------------------------------
(* Row sum and broadcast.                                                   *)
(* arg = [rows, cols, input, out0, junk]; mem = [input, out]; blk = [pc,    *)
(* todo]: the position of the host and the blocks of the row-sum kernel     *)
(* that have not run yet.                                                   *)

\* faulty variant: one row per block, without the grid stride
SumBlockRowsNoStride(b) == {row \in 0 .. arg.rows - 1 : row = b}
\* for (row = blockIdx.x; row < rows; row += gridDim.x): the rows of block b
SumBlockRows(b) == {row \in 0 .. arg.rows - 1 : row % SumGridDim = b}

\* for (col = threadIdx.x; col < cols; col += blockDim.x) sum += input[row * cols + col]
RECURSIVE SumPartial(_, _, _)
SumPartial(row, col, sum) ==
    IF col < arg.cols
    THEN SumPartial(row, col + SumBlockDim,
                    sum + Load(mem.input, SizeM, row * arg.cols + col))
    ELSE sum

\* sharedSum[threadIdx.x] = sum, as thread 0 reads it after __syncthreads()
SharedSum(row) == [tid \in 0 .. SumBlockDim - 1 |-> SumPartial(row, tid, 0)]

\* for (i = 0; i < blockDim.x; i++) totalSum += sharedSum[i]
RECURSIVE SumTotal(_, _, _)
SumTotal(shared, i, totalSum) ==
    IF i < SumBlockDim
    THEN SumTotal(shared, i + 1, totalSum + shared[i])
    ELSE totalSum

\* faulty variant: the sum stored at the row's index, not at its first column
SumStoreIndexDense(row) == row
\* output[row * cols]
SumStoreIndex(row) == row * arg.cols

\* the stores of block b of sumCudaKernel: thread 0, once per row of the block
SumBlockWrites(b) ==
    {[t |-> [bx |-> b, by |-> 0, tx |-> 0, ty |-> 0], k |-> row,
      a |-> SumStoreIndex(row), v |-> SumTotal(SharedSum(row), 0, 0)] :
        row \in SumBlockRows(b)}

\* the loads of block b of sumCudaKernel
SumBlockReads(b) ==
    {[buf |-> "input", a |-> row * arg.cols + col] :
        row \in SumBlockRows(b), col \in 0 .. arg.cols - 1}

\* sumCUDA: sumCudaKernel<<<128, 256, sharedMemSize>>>(a.dat, out.dat, rows, cols)
sumCUDA ==
    /\ blk.pc = "idle"
    /\ blk' = [pc |-> "summing", todo |-> 0 .. SumGridDim - 1]
    /\ UNCHANGED <<arg, mem, ran, wlog, rlog, oob, reported>>

\* one block of sumCudaKernel; the blocks of the grid run in any order
sumCudaKernel(b) ==
    /\ blk.pc = "summing"
    /\ b \in blk.todo
    /\ LET W == SumBlockWrites(b)
           R == SumBlockReads(b)
       IN  /\ mem' = [mem EXCEPT !.out = ApplyWrites(mem.out, SizeM, W)]
           /\ wlog' = wlog \cup WriteEvents("sum", "output", W)
           /\ oob' = oob
                 \cup {[op |-> "sum", buf |-> "input", a |-> r.a, kind |-> "read"] :
                          r \in {x \in R : ~InBuf(SizeM, x.a)}}
                 \cup {[op |-> "sum", buf |-> "output", a |-> w.a, kind |-> "write"] :
                          w \in {x \in W : ~InBuf(SizeM, x.a)}}
    /\ blk' = [blk EXCEPT !.todo = blk.todo \ {b}]
    /\ UNCHANGED <<arg, ran, rlog, reported>>

\* the last block of sumCudaKernel has finished
sumDone ==
    /\ blk.pc = "summing"
    /\ blk.todo = {}
    /\ blk' = [blk EXCEPT !.pc = "summed"]
    /\ ran' = ran \cup {"sum"}
    /\ UNCHANGED <<arg, mem, wlog, rlog, oob, reported>>

\* fn##Kernel_MTP: row = blockIdx.y * blockDim.y + threadIdx.y,
\*                 col = blockIdx.x * blockDim.x + threadIdx.x
ThreadRowE(t) == t.by * ElemBlockDim + t.ty
ThreadColE(t) == t.bx * ElemBlockDim + t.tx

\* UNARY(broadcast, a[(i / aCols) * aCols]): the value thread i stores.  The
\* thread of column 0 stores to the cell the others of its row load, and it
\* stores the value the cell holds, so a load sees that value either way.
BroadcastOpr(a, i, aCols) == a[CDiv(i, aCols) * aCols]

\* fn##Kernel_MTP for fn = broadcast, launched by broadcastCUDA in place
\* (out = a): the stores of all threads
BroadcastWrites(a, aRows, aCols) ==
    {[t |-> t, k |-> 0, a |-> ThreadRowE(t) * aCols + ThreadColE(t),
      v |-> BroadcastOpr(a, ThreadRowE(t) * aCols + ThreadColE(t), aCols)] :
        t \in {u \in Threads(CEIL_DIV(aCols, ElemBlockDim), CEIL_DIV(aRows, ElemBlockDim),
                             ElemBlockDim, ElemBlockDim) :
                 ThreadRowE(u) < aRows /\ ThreadColE(u) < aCols}}

\* broadcastCUDA(mat_out, 0), queued behind the row-sum kernel on the stream
broadcastCUDA ==
    /\ blk.pc = "summed"
    /\ LET W == BroadcastWrites(mem.out, arg.rows, arg.cols)
       IN  /\ mem' = [mem EXCEPT !.out = ApplyWrites(mem.out, SizeM, W)]
           /\ wlog' = wlog \cup WriteEvents("broadcast", "output", W)
    /\ blk' = [blk EXCEPT !.pc = "done"]
    /\ ran' = ran \cup {"broadcast"}
    /\ UNCHANGED <<arg, rlog, oob, reported>>

\* a rows x cols input and an output buffer of the same shape that holds
\* something already, as cudaSumTest sets them up
InitSum ==
    /\ \E r \in 0 .. MaxDim, c \in 0 .. MaxDim, seed \in 0 .. MaxSeed, junk \in JunkVals :
          arg = [rows |-> r, cols |-> c,
                 input |-> generateRandomMatrix(seed, r * c),
                 out0 |-> generateRandomMatrix(seed + 1, r * c),
                 junk |-> junk]
    /\ mem = [input |-> arg.input, out |-> arg.out0]
    /\ blk = [pc |-> "idle", todo |-> {}]
    /\ ran = {}
    /\ wlog = {}
    /\ rlog = {}
    /\ oob = {}
    /\ reported = {}

NextSum ==
    \/ sumCUDA
    \/ \E b \in blk.todo : sumCudaKernel(b)
    \/ sumDone
    \/ broadcastCUDA

SpecSum == InitSum /\ [][NextSum]_vars

\* the sum of the cols entries of row r of the input
RECURSIVE RowSum(_, _)
RowSum(r, n) ==
    IF n = 0 THEN 0 ELSE RowSum(r, n - 1) + arg.input[r * arg.cols + n - 1]

\* C7: after the row sum followed by broadcast on its output, every entry
\* (r, c) of the output equals the sum of the cols entries of input row r,
\* whatever rows and cols are relative to the grid and the block.
C7_SumThenBroadcast ==
    "broadcast" \in ran =>
        \A r \in 0 .. arg.rows - 1, c \in 0 .. arg.cols - 1 :
            mem.out[r * arg.cols + c] = RowSum(r, arg.cols)

\* row sum and broadcast have run on more rows than the grid has blocks and
\* more columns than a block has threads
C7_Witness ==
    /\ "broadcast" \in ran
    /\ arg.rows > SumGridDim /\ arg.cols > SumBlockDim
    /\ \E r \in 0 .. arg.rows - 1 :
          RowSum(r, arg.cols) # 0 /\ RowSum(r, arg.cols) # arg.out0[r * arg.cols + 1]

----------------------------------------------------------------------------
(* Global max.                                                              *)
(* A float's bit pattern is sign and magnitude: FloatMagBits magnitude bits *)
(* below a sign bit, read as a two's-complement int.  The largest magnitude *)
(* is INFINITY.  -0.0 has a bit pattern of its own.                         *)
(* arg = [length, data, acc0]; mem = [max_abs_val]: the accumulator's bit   *)
(* pattern; blk[b] = [pc, val, old, assumed, tries] for each block b.       *)

RECURSIVE Pow2(_)
Pow2(n) == IF n = 0 THEN 1 ELSE 2 * Pow2(n - 1)

SignBit == Pow2(FloatMagBits)
INFINITY == SignBit - 1

\* __float_as_int
FloatAsInt(f) == IF f >= 0 THEN f ELSE (-f) - SignBit
\* __int_as_float
IntAsFloat(i) == IF i >= 0 THEN i ELSE -(i + SignBit)

fmaxf(a, b) == IF a >= b THEN a ELSE b

MaxBlockDim == Pow2(MaxBlockLog)

\* while (thread_idx < length) { localMax = fmaxf(localMax, out_data[thread_idx]);
\*                               thread_idx += blockDim.x * gridDim.x; }
RECURSIVE LocalMax(_, _)
LocalMax(thread_idx, localMax) ==
    IF thread_idx < arg.length
    THEN LocalMax(thread_idx + MaxBlockDim * MaxGridDim,
                  fmaxf(localMax, arg.data[thread_idx]))
    ELSE localMax

\* for (s = blockDim.x / 2; s > 0; s >>= 1) {
\*     if (tid < s) sdata[tid] = fmaxf(sdata[tid], sdata[tid + s]); __syncthreads(); }
RECURSIVE TreeReduce(_, _)
TreeReduce(sdata, s) ==
    IF s > 0
    THEN TreeReduce([tid \in DOMAIN sdata |->
                        IF tid < s THEN fmaxf(sdata[tid], sdata[tid + s]) ELSE sdata[tid]],
                    s \div 2)
    ELSE sdata

\* sdata[0] of block b after the reduction: the maximum of the block's share
BlockMax(b) ==
    TreeReduce([tid \in 0 .. MaxBlockDim - 1 |->
                   LocalMax(MaxBlockDim * b + tid, -INFINITY)],
               MaxBlockDim \div 2)[0]

\* faulty variant: an unconditional exchange in place of the compare-and-swap
atomicExch(cur, compare, val) == val
\* ::atomicCAS(address, compare, val): the value stored at the address after it
atomicCAS(cur, compare, val) == IF cur = compare THEN val ELSE cur

\* findMaxKernel up to "if (tid == 0)", for block b
findMaxKernel(b) ==
    /\ blk[b].pc = "reduce"
    /\ blk' = [blk EXCEPT ![b].pc = "read", ![b].val = BlockMax(b)]
    /\ UNCHANGED <<arg, mem, ran, wlog, rlog, oob, reported>>

\* atomicMax: int old = *address_as_i
atomicMaxRead(b) ==
    /\ blk[b].pc = "read"
    /\ blk' = [blk EXCEPT ![b].pc = "cas", ![b].old = mem.max_abs_val]
    /\ UNCHANGED <<arg, mem, ran, wlog, rlog, oob, reported>>

\* atomicMax: assumed = old;
\*            old = atomicCAS(address_as_i, assumed,
\*                            __float_as_int(fmaxf(val, __int_as_float(assumed))));
\*            while (assumed != old)
atomicMaxCAS(b) ==
    /\ blk[b].pc = "cas"
    /\ LET assumed == blk[b].old
           old == mem.max_abs_val
           new == FloatAsInt(fmaxf(blk[b].val, IntAsFloat(assumed)))
       IN  /\ mem' = [mem EXCEPT !.max_abs_val = atomicCAS(old, assumed, new)]
           /\ blk' = [blk EXCEPT ![b].assumed = assumed,
                                 ![b].old = old,
                                 ![b].tries = blk[b].tries + 1,
                                 ![b].pc = IF assumed # old THEN "cas" ELSE "done"]
    /\ UNCHANGED <<arg, ran, wlog, rlog, oob, reported>>

\* the kernel has finished when every block has
findMaxDone ==
    /\ "max" \notin ran
    /\ \A b \in DOMAIN blk : blk[b].pc = "done"
    /\ ran' = ran \cup {"max"}
    /\ UNCHANGED <<arg, mem, wlog, rlog, oob, reported, blk>>

\* the bit patterns the accumulator may hold at the launch
AccInit == {FloatAsInt(-INFINITY), FloatAsInt(-1), FloatAsInt(0) - SignBit, FloatAsInt(1)}

\* findMaxKernel<<<dimGrid, dimBlock, sharedMemSize>>>(data, max_abs_val, length)
InitMax ==
    /\ \E n \in 0 .. MaxLen, seed \in 0 .. 2 * MaxSeed + 1, acc0 \in AccInit :
          arg = [length |-> n, data |-> generateRandomMatrix(seed, n), acc0 |-> acc0]
    /\ mem = [max_abs_val |-> arg.acc0]
    /\ blk = [b \in 0 .. MaxGridDim - 1 |->
                 [pc |-> "reduce", val |-> 0, old |-> 0, assumed |-> 0, tries |-> 0]]
    /\ ran = {}
    /\ wlog = {}
    /\ rlog = {}
    /\ oob = {}
    /\ reported = {}

NextMax ==
    \/ \E b \in DOMAIN blk : findMaxKernel(b)
    \/ \E b \in DOMAIN blk : atomicMaxRead(b)
    \/ \E b \in DOMAIN blk : atomicMaxCAS(b)
    \/ findMaxDone

SpecMax == InitMax /\ [][NextMax]_vars

\* the greatest element of a non-empty finite set of integers
SetMax(S) == CHOOSE m \in S : \A x \in S : m >= x

\* the accumulator as a float
AccValue == IntAsFloat(mem.max_abs_val)

\* C9: in every interleaving of the blocks' compare-and-swap loops, once
\* findMaxKernel has finished the accumulator holds the maximum of its
\* initial value and the length input elements; a block that has left its
\* loop has its maximum covered by the accumulator; and no step decreases
\* the accumulator.
C9_AtomicMaxMerges ==
    /\ [](/\ \A b \in DOMAIN blk : blk[b].pc = "done" => AccValue >= blk[b].val
          /\ "max" \in ran =>
                AccValue = SetMax({IntAsFloat(arg.acc0)}
                                  \cup {arg.data[i] : i \in 0 .. arg.length - 1}))
    /\ [][IntAsFloat(mem.max_abs_val') >= IntAsFloat(mem.max_abs_val)]_vars

\* the kernel has finished after a compare-and-swap failed and was retried,
\* with more elements than threads, and the accumulator was raised
C9_Witness ==
    /\ "max" \in ran
    /\ \E b \in DOMAIN blk : blk[b].tries >= 2
    /\ arg.length > MaxGridDim * MaxBlockDim
    /\ AccValue > IntAsFloat(arg.acc0)

----------------------------------------------------------------------------
(* Inverse-CDF sampling.                                                    *)
(* arg = [length, probs, rand]: the normalised row in units of 1/ProbUnit   *)
(* and the value rand() returned; mem = [output]: *output of the kernel.    *)

\* double r = ((double)rand() / RAND_MAX), as a fraction
RandVal(rand) == [num |-> rand, den |-> RAND_MAX]

\* faulty variant: the scan stops only when the sum exceeds the draw
SumReachesStrict(sum, rand_val) == sum * rand_val.den > rand_val.num * ProbUnit

\* sum >= rand_val, for sum in units of 1 / ProbUnit
SumReaches(sum, rand_val) == sum * rand_val.den >= rand_val.num * ProbUnit

\* while (tmp < length) { sum += probs[tmp]; if (sum >= rand_val) break; tmp++; }
\* *output = tmp: the value of tmp at the store
RECURSIVE SampleScan(_, _, _, _, _)
SampleScan(probs, rand_val, length, tmp, sum) ==
    IF tmp < length
    THEN IF SumReaches(sum + probs[tmp], rand_val)
         THEN tmp
         ELSE SampleScan(probs, rand_val, length, tmp + 1, sum + probs[tmp])
    ELSE tmp

\* weightedSampleKernel<<<1, 1>>>(a.dat, dev_out, r, a.cols) and the copy of
\* dev_out to *out
weightedSampleKernel ==
    /\ "sample" \notin ran
    /\ mem' = [mem EXCEPT !.output =
                  SampleScan(arg.probs, RandVal(arg.rand), arg.length, 0, 0)]
    /\ ran' = ran \cup {"sample"}
    /\ UNCHANGED <<arg, wlog, rlog, oob, reported, blk>>

RECURSIVE SeqSum(_, _)
SeqSum(f, n) == IF n = 0 THEN 0 ELSE SeqSum(f, n - 1) + f[n - 1]

\* the rows divide_const(a, sum) leaves: non-negative entries that add up
\* to 1 within one unit of rounding
ProbRows(w) ==
    {f \in [0 .. w - 1 -> 0 .. ProbUnit] :
        SeqSum(f, w) \in ProbUnit - 1 .. ProbUnit + 1}

\* a normalised row of width >= 1 and a value of rand() in 0..RAND_MAX
InitSample ==
    /\ \E w \in 1 .. MaxWidth, rand \in 0 .. RAND_MAX :
          \E f \in ProbRows(w) :
              arg = [length |-> w, probs |-> f, rand |-> rand]
    /\ mem = [output |-> -1]
    /\ ran = {}
    /\ wlog = {}
    /\ rlog = {}
    /\ oob = {}
    /\ reported = {}
    /\ blk = <<>>

NextSample == weightedSampleKernel

SpecSample == InitSample /\ [][NextSample]_vars

\* C10: the index weightedSampleKernel stores is in 0 .. width - 1 for every
\* probability row and every draw, and when the scan passes all width
\* entries without the cumulative sum reaching r it is width - 1.
C10_SampleIndexInRange ==
    "sample" \in ran =>
        /\ mem.output >= 0 /\ mem.output <= arg.length - 1
        /\ ~SumReaches(SeqSum(arg.probs, arg.length), RandVal(arg.rand))
              => mem.output = arg.length - 1

\* C10, what the code does satisfy: the index is in 0 .. width, and it is
\* width exactly when the cumulative sum never reaches r.
SampleIndexAtMostWidth ==
    "sample" \in ran =>
        /\ mem.output >= 0 /\ mem.output <= arg.length
        /\ mem.output = arg.length
              <=> ~SumReaches(SeqSum(arg.probs, arg.length), RandVal(arg.rand))

\* probs[0] + ... + probs[i], in units of 1 / ProbUnit
PrefixSum(i) == SeqSum(arg.probs, i + 1)

\* the indices whose prefix has cumulative sum >= r, with r = rand / RAND_MAX
ReachingPrefixes ==
    {i \in 0 .. arg.length - 1 : PrefixSum(i) * RAND_MAX >= arg.rand * ProbUnit}

\* C11: whenever some prefix of the row has cumulative sum >= r, the index
\* stored by weightedSampleKernel is the smallest i with
\* probs[0] + ... + probs[i] >= r; it is determined by the row and r alone.
C11_FirstReachingIndex ==
    ("sample" \in ran /\ ReachingPrefixes # {}) =>
        /\ mem.output \in ReachingPrefixes
        /\ \A i \in ReachingPrefixes : mem.output <= i

\* C11: a scan that passed over at least one entry before it stopped
C11_Witness ==
    /\ "sample" \in ran
    /\ ReachingPrefixes # {}
    /\ mem.output > 0
    /\ mem.output < arg.length - 1

----------------------------------------------------------------------------
(* softmaxSampleCUDA: the host statements of the function and the stream   *)
(* of device work they queue.                                              *)
(* arg = [rows, cols, length, data, rand, junk]: the Matrix a of the call  *)
(* (data is a.dat at the call, length the a.cols handed to findMaxKernel)  *)
(* and the value rand() will return.                                       *)
(* mem = [input, dev_max_val, max_val, dev_sum, sum, r, dev_out, out,      *)
(*        allocs]: a.dat on the device, the three device cells, the host   *)
(* variables and the live device allocations.                              *)
(* blk = [pc, queue, running]: the host's position, the work queued on the *)
(* default stream and the work the device is executing.                    *)
(* wlog is the sequence of stage events [stage, ev].                       *)
(*                                                                         *)
(* A float of the row is an integer of the miniature format of the global  *)
(* max (magnitudes 0 .. INFINITY); exp yields a fixed-point number in      *)
(* units of 1 / ExpUnit and the division by the sum one in units of        *)
(* 1 / ProbUnit.                                                           *)

\* largest a.rows drawn for the sampler
MaxSampleRows == 2
\* exp(0), the unit of the exponentiated entries
ExpUnit == 4

\* cudaMemset(ptr, value, 4): each of the 4 bytes becomes (unsigned char) value
MemsetBytes(value) == [i \in 0 .. 3 |-> value % 256]

\* the float whose 4 bytes (little-endian) are bytes: sign bit, and the
\* 8-bit exponent brought to the miniature format's scale; exponent 255 is
\* +-INFINITY, the finite exponents 0..254 fall on 0 .. INFINITY - 1
FloatOfBytes(bytes) ==
    LET sign == bytes[3] \div 128
        exponent == (bytes[3] % 128) * 2 + bytes[2] \div 128
        mag == IF exponent = 255 THEN INFINITY
               ELSE (exponent * (INFINITY - 1)) \div 254
    IN  IF sign = 1 THEN -mag ELSE mag

\* exp(b), in units of 1 / ExpUnit
Exp(b) == IF b >= 0 THEN ExpUnit * Pow2(b) ELSE ExpUnit \div Pow2(-b)

\* the result of an operation that has none (0/0, the root of a negative)
NaN == INFINITY + 1

\* sqrt(b) for b >= 0, rounded down
IntSqrt(b) == CHOOSE s \in 0 .. b : s * s <= b /\ (s + 1) * (s + 1) > b

\* 1. / sqrt(b), in units of 1 / ExpUnit
Isqrt(b) ==
    IF b > 0 THEN CDiv(ExpUnit, IntSqrt(b)) ELSE IF b = 0 THEN INFINITY ELSE NaN

\* tanh, saturated: -1, 0 or 1 in units of 1 / ExpUnit
Tanh(x) == IF x > 0 THEN ExpUnit ELSE IF x < 0 THEN -ExpUnit ELSE 0

\* b / 2 * (1 + tanh(.7978845 * (b + .044715 * b * b * b))), in units of 1 / ExpUnit
GELU(b) == CDiv(b * (ExpUnit + Tanh(b + CDiv(b * b * b, 22))), 2)

\* faulty variant: the comparison of tril the other way round
TrilZeroBelow(i, k) == (i % k) * k < i
\* i / k < i % (int)k, for the int i and the float k > 0 of integral value:
\* the quotient is a float division, so i / k < m exactly when i < m * k
TrilZero(i, k) == i < (i % k) * k

\* (i / k < i % (int)k) ? 0 : exp(b / 8)
tril(b, i, k) == IF TrilZero(i, k) THEN 0 ELSE Exp(CDiv(b, 8))

\* UNARY(fn, opr): the value the thread of index i stores
UnaryOpr(fn, a, i, aCols, k) ==
    CASE fn = "add_const" -> a[i] + k
      [] fn = "mat_exp" -> Exp(a[i])
      [] fn = "divide_const" -> CDiv(a[i] * ProbUnit, k)
      [] fn = "broadcast" -> BroadcastOpr(a, i, aCols)
      [] fn = "mat_isqrt" -> Isqrt(a[i])
      [] fn = "tril" -> tril(a[i], i, k)
      [] fn = "GELU" -> GELU(a[i])

\* faulty variant: a range test that stops one column short
ElemThreadsShort(aRows, aCols) ==
    {u \in Threads(CDiv(aCols + ElemBlockDim - 1, ElemBlockDim),
                   CDiv(aRows + ElemBlockDim - 1, ElemBlockDim),
                   ElemBlockDim, ElemBlockDim) :
        ThreadRowE(u) < aRows /\ ThreadColE(u) < aCols - 1}
\* the threads of fn##Kernel_MTP<<<gridSize, blockSize>>> that pass
\* "if (row < aRows && col < aCols)"
ElemThreads(aRows, aCols) ==
    {u \in Threads(CDiv(aCols + ElemBlockDim - 1, ElemBlockDim),
                   CDiv(aRows + ElemBlockDim - 1, ElemBlockDim),
                   ElemBlockDim, ElemBlockDim) :
        ThreadRowE(u) < aRows /\ ThreadColE(u) < aCols}

\* int i = row * aCols + col
ElemIndex(t, aCols) == ThreadRowE(t) * aCols + ThreadColE(t)

\* fn##Kernel_MTP launched by fn##CUDA in place (out = a): the stores of all
\* threads
UnaryWrites(fn, a, aRows, aCols, k) ==
    {[t |-> t, k |-> 0, a |-> ElemIndex(t, aCols),
      v |-> UnaryOpr(fn, a, ElemIndex(t, aCols), aCols, k)] :
        t \in ElemThreads(aRows, aCols)}

\* findMaxKernel as a whole: every block's maximum merged into the
\* accumulator by atomicMax
RECURSIVE findMaxMerged(_, _)
findMaxMerged(acc, b) ==
    IF b < MaxGridDim THEN findMaxMerged(fmaxf(BlockMax(b), acc), b + 1) ELSE acc

\* the statements of softmaxSampleCUDA, in program order
softmaxSampleCUDA ==
    << [stmt |-> "cudaMalloc", x |-> "dev_max_val"],
       [stmt |-> "launch",     x |-> "cudaMemset"],
       [stmt |-> "launch",     x |-> "findMaxKernel"],
       [stmt |-> "cudaMemcpy", x |-> "max_val"],
       [stmt |-> "launch",     x |-> "add_const"],
       [stmt |-> "launch",     x |-> "mat_exp"],
       [stmt |-> "cudaMalloc", x |-> "dev_sum"],
       [stmt |-> "launch",     x |-> "sumCudaKernel"],
       [stmt |-> "cudaMemcpy", x |-> "sum"],
       [stmt |-> "launch",     x |-> "divide_const"],
       [stmt |-> "cudaMalloc", x |-> "dev_out"],
       [stmt |-> "rand",       x |-> "r"],
       [stmt |-> "launch",     x |-> "weightedSampleKernel"],
       [stmt |-> "cudaMemcpy", x |-> "out"] >>

\* the statement the host is at
HostStmt ==
    IF blk.pc <= Len(softmaxSampleCUDA)
    THEN softmaxSampleCUDA[blk.pc]
    ELSE [stmt |-> "return", x |-> ""]

\* the host-side argument a launch captures: add_constCUDA(a, -1.0 * max_val),
\* divide_constCUDA(a, sum), weightedSampleKernel<<<1, 1>>>(.., r, ..)
LaunchArg(x) ==
    CASE x = "add_const" -> -mem.max_val
      [] x = "divide_const" -> mem.sum
      [] x = "weightedSampleKernel" -> mem.r
      [] OTHER -> 0

StageEvent(stage, ev) == [stage |-> stage, ev |-> ev]

\* cudaMalloc(&ptr, size): a fresh allocation with unknown content
cudaMalloc ==
    /\ HostStmt.stmt = "cudaMalloc"
    /\ mem' = [mem EXCEPT !.allocs = mem.allocs \cup {HostStmt.x}]
    /\ blk' = [blk EXCEPT !.pc = blk.pc + 1]
    /\ UNCHANGED <<arg, ran, wlog, rlog, oob, reported>>

\* a kernel launch or cudaMemset: the work is queued on the default stream
\* and the host goes on
launch ==
    /\ HostStmt.stmt = "launch"
    /\ blk' = [blk EXCEPT !.pc = blk.pc + 1,
                          !.queue = Append(blk.queue,
                                           [op |-> HostStmt.x, k |-> LaunchArg(HostStmt.x)])]
    /\ UNCHANGED <<arg, mem, ran, wlog, rlog, oob, reported>>

\* faulty variant: a copy that does not wait for the stream
cudaMemcpyUnjoined == TRUE
\* cudaMemcpy(.., cudaMemcpyDeviceToHost) returns once all work queued before
\* it on the stream has finished
cudaMemcpyJoined == blk.queue = <<>> /\ blk.running = <<>>

\* cudaMemcpy(&max_val, dev_max_val, ..), cudaMemcpy(&sum, dev_sum, ..),
\* cudaMemcpy(out, dev_out, ..)
cudaMemcpy ==
    /\ HostStmt.stmt = "cudaMemcpy"
    /\ cudaMemcpyJoined
    /\ mem' = CASE HostStmt.x = "max_val" -> [mem EXCEPT !.max_val = mem.dev_max_val]
                [] HostStmt.x = "sum" -> [mem EXCEPT !.sum = mem.dev_sum[0]]
                [] HostStmt.x = "out" -> [mem EXCEPT !.out = mem.dev_out]
    /\ wlog' = Append(wlog, StageEvent(HostStmt.x, "copy"))
    /\ blk' = [blk EXCEPT !.pc = blk.pc + 1]
    /\ UNCHANGED <<arg, ran, rlog, oob, reported>>

\* double r = ((double)rand() / RAND_MAX)
drawRand ==
    /\ HostStmt.stmt = "rand"
    /\ mem' = [mem EXCEPT !.r = RandVal(arg.rand)]
    /\ wlog' = Append(wlog, StageEvent("rand", "draw"))
    /\ blk' = [blk EXCEPT !.pc = blk.pc + 1]
    /\ UNCHANGED <<arg, ran, rlog, oob, reported>>

\* the device takes the work at the head of the stream
deviceBegin ==
    /\ blk.running = <<>>
    /\ blk.queue # <<>>
    /\ blk' = [blk EXCEPT !.running = <<Head(blk.queue)>>, !.queue = Tail(blk.queue)]
    /\ wlog' = Append(wlog, StageEvent(Head(blk.queue).op, "begin"))
    /\ UNCHANGED <<arg, mem, ran, rlog, oob, reported>>

\* the stores of sumCudaKernel<<<dimGrid, dimBlock, ..>>>(a.dat, dev_sum, a.rows, a.cols)
SampleSumWrites == UNION {SumBlockWrites(b) : b \in 0 .. SumGridDim - 1}

\* the work the device is executing finishes: its stores take effect
deviceEnd ==
    /\ blk.running # <<>>
    /\ LET w == blk.running[1]
           elementwise(fn) ==
               [mem EXCEPT !.input =
                   ApplyWrites(mem.input, SizeM,
                               UnaryWrites(fn, mem.input, arg.rows, arg.cols, w.k))]
       IN  /\ mem' =
                CASE w.op = "cudaMemset" ->
                       [mem EXCEPT !.dev_max_val = FloatOfBytes(MemsetBytes(-10000))]
                  [] w.op = "findMaxKernel" ->
                       [mem EXCEPT !.dev_max_val = findMaxMerged(mem.dev_max_val, 0)]
                  [] w.op = "sumCudaKernel" ->
                       [mem EXCEPT !.dev_sum = ApplyWrites(mem.dev_sum, 1, SampleSumWrites)]
                  [] w.op = "weightedSampleKernel" ->
                       [mem EXCEPT !.dev_out = SampleScan(mem.input, w.k, arg.cols, 0, 0)]
                  [] OTHER -> elementwise(w.op)
           /\ oob' = IF w.op = "sumCudaKernel"
                     THEN oob \cup {[op |-> "sum", buf |-> "dev_sum", a |-> x.a, kind |-> "write"] :
                                       x \in {y \in SampleSumWrites : ~InBuf(1, y.a)}}
                     ELSE oob
           /\ wlog' = Append(wlog, StageEvent(w.op, "end"))
           /\ ran' = ran \cup {w.op}
    /\ blk' = [blk EXCEPT !.running = <<>>]
    /\ UNCHANGED <<arg, rlog, reported>>

\* the finite floats a row is drawn from: a generated row, as it is or
\* lowered to the bottom of the format (and saturating there)
LogitRow(seed, shift, n) ==
    [i \in 0 .. n - 1 |->
        Max(generateRandomMatrix(seed, n)[i] + shift, -(INFINITY - 1))]

\* the call softmaxSampleCUDA(a, out)
InitSoftmax ==
    /\ \E rows \in 1 .. MaxSampleRows, cols \in 1 .. MaxWidth,
          seed \in 0 .. 2 * MaxSeed + 1, shift \in {0, -(INFINITY - 1)},
          rand \in 0 .. RAND_MAX, junk \in JunkVals :
          arg = [rows |-> rows, cols |-> cols, length |-> cols,
                 data |-> LogitRow(seed, shift, rows * cols),
                 rand |-> rand, junk |-> junk]
    /\ mem = [input |-> arg.data,
              dev_max_val |-> arg.junk, max_val |-> arg.junk,
              dev_sum |-> Uninitialised(1), sum |-> arg.junk,
              r |-> RandVal(0),
              dev_out |-> -1, out |-> -1,
              allocs |-> {}]
    /\ blk = [pc |-> 1, queue |-> <<>>, running |-> <<>>]
    /\ ran = {}
    /\ wlog = <<>>
    /\ rlog = {}
    /\ oob = {}
    /\ reported = {}

NextSoftmax ==
    \/ cudaMalloc
    \/ launch
    \/ cudaMemcpy
    \/ drawRand
    \/ deviceBegin
    \/ deviceEnd

SpecSoftmax == InitSoftmax /\ [][NextSoftmax]_vars

\* the stage event has taken place
Happened(stage, ev) == \E i \in DOMAIN wlog : wlog[i] = StageEvent(stage, ev)

\* the logits row handed to findMaxKernel
LogitsRow == {arg.data[i] : i \in 0 .. arg.length - 1}

\* C12: the accumulator handed to findMaxKernel is pre-initialised by
\* cudaMemset(dev_max_val, -10000, 4) to a value no greater than any input
\* the row can hold, so the max_val read back equals the true maximum of the
\* logits row, for every row.
C12_SentinelBelowEveryInput ==
    /\ (Happened("cudaMemset", "end") /\ ~Happened("findMaxKernel", "begin"))
          => \A x \in LogitsRow : mem.dev_max_val <= x
    /\ Happened("max_val", "copy") => mem.max_val = SetMax(LogitsRow)

\* C12, what the code does satisfy: max_val is the greater of the float the
\* memset leaves and the row's maximum.
MaxValIsMaxWithSentinel ==
    Happened("max_val", "copy")
        => mem.max_val = SetMax(LogitsRow \cup {FloatOfBytes(MemsetBytes(-10000))})

\* the stages the order of softmaxSampleCUDA is about, as the events of a
\* run in which each stage ends before the next begins
StrictStageOrder ==
    << StageEvent("findMaxKernel", "begin"), StageEvent("findMaxKernel", "end"),
       StageEvent("max_val", "copy"),
       StageEvent("add_const", "begin"), StageEvent("add_const", "end"),
       StageEvent("mat_exp", "begin"), StageEvent("mat_exp", "end"),
       StageEvent("sumCudaKernel", "begin"), StageEvent("sumCudaKernel", "end"),
       StageEvent("sum", "copy"),
       StageEvent("divide_const", "begin"), StageEvent("divide_const", "end"),
       StageEvent("rand", "draw"),
       StageEvent("weightedSampleKernel", "begin"), StageEvent("weightedSampleKernel", "end"),
       StageEvent("out", "copy") >>

IsPrefix(p, q) == Len(p) <= Len(q) /\ \A i \in 1 .. Len(p) : p[i] = q[i]

IsStage(e) == e.stage # "cudaMemset"
IsDeviceStage(e) == e.stage # "rand"

\* the events of the listed stages so far
StageLog == SelectSeq(wlog, IsStage)

\* the position of an event in the run, 0 when it has not taken place
EventIndex(stage, ev) ==
    IF Happened(stage, ev)
    THEN CHOOSE i \in DOMAIN wlog : wlog[i] = StageEvent(stage, ev)
    ELSE 0

\* C13 as claimed: the stages run strictly in the order max, subtract-max,
\* exponentiate, row-sum, divide-by-sum, draw r, inverse-CDF scan; each
\* begins after the previous one has finished and no two overlap.
C13_AllStagesStrictlyOrdered == IsPrefix(StageLog, StrictStageOrder)

\* C13 as amended: the kernels and the host's reads of max_val, sum and the
\* output index run strictly in that order, each beginning after the one
\* before it has finished; the draw of r takes place after sum is read and
\* before the scan begins, and may come before or during divide-by-sum.
C13_DeviceStagesStrictlyOrdered ==
    /\ IsPrefix(SelectSeq(StageLog, IsDeviceStage),
                SelectSeq(StrictStageOrder, IsDeviceStage))
    /\ Happened("rand", "draw") =>
          /\ Happened("sum", "copy")
          /\ EventIndex("sum", "copy") < EventIndex("rand", "draw")
    /\ Happened("weightedSampleKernel", "begin") =>
          /\ Happened("rand", "draw")
          /\ EventIndex("rand", "draw") < EventIndex("weightedSampleKernel", "begin")

\* C13: the call has returned, and r was drawn while divide-by-sum was running
C13_Witness ==
    /\ Happened("out", "copy")
    /\ EventIndex("divide_const", "begin") < EventIndex("rand", "draw")
    /\ EventIndex("rand", "draw") < EventIndex("divide_const", "end")

\* C19: for every value rand() returns in 0 .. RAND_MAX the draw
\* r = rand() / RAND_MAX satisfies 0 <= r < 1.
C19_DrawInHalfOpenUnitInterval ==
    Happened("rand", "draw") => (mem.r.num >= 0 /\ mem.r.num < mem.r.den)

\* C19, what the code does satisfy: 0 <= r <= 1
DrawInClosedUnitInterval ==
    Happened("rand", "draw") => (mem.r.num >= 0 /\ mem.r.num <= mem.r.den)

----------------------------------------------------------------------------
(* The elementwise operators: fn##CUDA of UNARY and of BINARY.             *)
(* arg = [fn, rows, cols, k, a, bRows, bCols, b, junk]: the operator, the  *)
(* first operand's shape and content, the constant of a unary operator,    *)
(* the second operand of a binary one.                                     *)
(* mem = [a, b, ret, allocs]: the two device buffers, the descriptor the   *)
(* call returned and the live device allocations.                          *)

UnaryFns == {"divide_const", "add_const", "mat_isqrt", "mat_exp", "broadcast", "tril", "GELU"}
BinaryFns == {"add", "multiply", "divide", "add_tile", "multiply_tile"}

SizeOfB == arg.bRows * arg.bCols

\* a[i] / b[i], in units of 1 / ProbUnit
Quotient(x, y) ==
    IF y # 0 THEN CDiv(x * ProbUnit, y)
    ELSE IF x = 0 THEN NaN ELSE IF x > 0 THEN INFINITY ELSE -INFINITY

\* faulty variant: the tile operators reading column 0 of row i / aCols
TileIndexFirstColumn(i, aCols) == CDiv(i, aCols) * aCols
\* b[i % aCols] of BINARY(add_tile, +b[i % aCols];(void))
TileIndex(i, aCols) == i % aCols

\* the index of b the thread of index i loads: b[i], or b[i % aCols] in the
\* tile operators (whose trailing "(void) b[i]" loads nothing)
BinaryBIndex(fn, i, aCols) ==
    IF fn \in {"add_tile", "multiply_tile"} THEN TileIndex(i, aCols) ELSE i

\* BINARY(fn, opr): a[i] opr b[i], the value the thread of index i stores
BinaryOpr(fn, a, b, i, aCols) ==
    LET y == Load(b, SizeOfB, BinaryBIndex(fn, i, aCols))
    IN  CASE fn \in {"add", "add_tile"} -> a[i] + y
          [] fn \in {"multiply", "multiply_tile"} -> a[i] * y
          [] fn = "divide" -> Quotient(a[i], y)

\* the stores of a binary kernel: a[i] = a[i] opr b[i]
BinaryKernelWrites(fn, a, b, aRows, aCols) ==
    {[t |-> t, k |-> 0, a |-> ElemIndex(t, aCols),
      v |-> BinaryOpr(fn, a, b, ElemIndex(t, aCols), aCols)] :
        t \in ElemThreads(aRows, aCols)}

\* the loads of b a binary kernel makes
BinaryKernelReads(fn, aRows, aCols) ==
    {[t |-> t, buf |-> "b", a |-> BinaryBIndex(fn, ElemIndex(t, aCols), aCols)] :
        t \in ElemThreads(aRows, aCols)}

\* the indices of a the thread of index i loads: "float b = a[i]" in a unary
\* kernel and a[i] in a binary one, and a[(i / aCols) * aCols] in broadcast
ElemAIndices(fn, i, aCols) ==
    IF fn = "broadcast" THEN {i, CDiv(i, aCols) * aCols} ELSE {i}

\* the loads of a an elementwise kernel makes
ElemKernelReadsOfA(fn, aRows, aCols) ==
    UNION {{[t |-> t, buf |-> "a", a |-> x] : x \in ElemAIndices(fn, ElemIndex(t, aCols), aCols)} :
           t \in ElemThreads(aRows, aCols)}

\* Matrix fn##CUDA(Matrix m, float k): the kernel in place, then "return m"
unaryCUDA ==
    /\ arg.fn \in UnaryFns
    /\ arg.fn \notin ran
    /\ LET W == UnaryWrites(arg.fn, mem.a, arg.rows, arg.cols, arg.k)
       IN  /\ mem' = [mem EXCEPT !.a = ApplyWrites(mem.a, SizeM, W),
                                 !.ret = [dat |-> "a", rows |-> arg.rows, cols |-> arg.cols]]
           /\ wlog' = wlog \cup WriteEvents(arg.fn, "a", W)
           /\ rlog' = rlog \cup ElemKernelReadsOfA(arg.fn, arg.rows, arg.cols)
           /\ oob' = oob \cup {[op |-> arg.fn, buf |-> "a", a |-> w.a, kind |-> "write"] :
                                  w \in {x \in W : ~InBuf(SizeM, x.a)}}
    /\ ran' = ran \cup {arg.fn}
    /\ UNCHANGED <<arg, reported, blk>>

\* Matrix fn##CUDA(Matrix a, Matrix b): the kernel on a.dat, then "return a"
binaryCUDA ==
    /\ arg.fn \in BinaryFns
    /\ arg.fn \notin ran
    /\ LET W == BinaryKernelWrites(arg.fn, mem.a, mem.b, arg.rows, arg.cols)
           R == BinaryKernelReads(arg.fn, arg.rows, arg.cols)
       IN  /\ mem' = [mem EXCEPT !.a = ApplyWrites(mem.a, SizeM, W),
                                 !.ret = [dat |-> "a", rows |-> arg.rows, cols |-> arg.cols]]
           /\ wlog' = wlog \cup WriteEvents(arg.fn, "a", W)
           /\ rlog' = rlog \cup R \cup ElemKernelReadsOfA(arg.fn, arg.rows, arg.cols)
           /\ oob' = oob
                 \cup {[op |-> arg.fn, buf |-> "a", a |-> w.a, kind |-> "write"] :
                          w \in {x \in W : ~InBuf(SizeM, x.a)}}
                 \cup {[op |-> arg.fn, buf |-> "b", a |-> r.a, kind |-> "read"] :
                          r \in {x \in R : ~InBuf(SizeOfB, x.a)}}
    /\ ran' = ran \cup {arg.fn}
    /\ UNCHANGED <<arg, reported, blk>>

\* the entries of an operand, spread so that b / 8 and the roots differ
ElemInput(seed, n) == [i \in 0 .. n - 1 |-> 4 * generateRandomMatrix(seed, n)[i]]

\* a call of one elementwise operator on device matrices: a unary one with
\* a constant k >= 1, or a binary one whose second operand has the first
\* one's shape (as in the tests) or, for the tile operators, may also be a
\* single column of as many rows
InitElem ==
    /\ \E fn \in UnaryFns \cup BinaryFns, rows \in 0 .. MaxDim, cols \in 0 .. MaxDim,
          k \in 1 .. MaxDim, seed \in 0 .. MaxSeed, junk \in JunkVals :
       \E bCols \in {cols, 1} :
          /\ fn \in BinaryFns => k = 1
          /\ fn \notin {"add_tile", "multiply_tile"} => bCols = cols
          /\ arg = [fn |-> fn, rows |-> rows, cols |-> cols, k |-> k,
                    a |-> ElemInput(seed, rows * cols),
                    bRows |-> rows, bCols |-> bCols,
                    b |-> ElemInput(seed + 1, rows * bCols),
                    junk |-> junk]
    /\ mem = [a |-> arg.a, b |-> arg.b,
              ret |-> [dat |-> "", rows |-> 0, cols |-> 0],
              allocs |-> {"a", "b"}]
    /\ ran = {}
    /\ wlog = {}
    /\ rlog = {}
    /\ oob = {}
    /\ reported = {}
    /\ blk = <<>>

NextElem ==
    \/ unaryCUDA
    \/ binaryCUDA

SpecElem == InitElem /\ [][NextElem]_vars

\* the cells of the first operand
ElemCells == {<<r, c>> \in (0 .. arg.rows - 1) \X (0 .. arg.cols - 1) : TRUE}

\* a op b for the binary operators
Combine(fn, x, y) ==
    CASE fn \in {"add", "add_tile"} -> x + y
      [] fn \in {"multiply", "multiply_tile"} -> x * y
      [] fn = "divide" -> Quotient(x, y)

\* C14: after add_tile or multiply_tile entry (r, c) of the first operand is
\* a[r][c] op b[r][0]: only column 0 of the second operand enters the result.
C14_TileUsesColumnZero ==
    (arg.fn \in {"add_tile", "multiply_tile"} /\ arg.fn \in ran) =>
        \A rc \in ElemCells :
            mem.a[rc[1] * arg.cols + rc[2]]
                = Combine(arg.fn, arg.a[rc[1] * arg.cols + rc[2]],
                          arg.b[rc[1] * arg.bCols])

\* C14, what the code does satisfy: entry (r, c) is combined with the c-th
\* float of the second operand's buffer, whatever its row.
TileUsesBufferPrefix ==
    (arg.fn \in {"add_tile", "multiply_tile"} /\ arg.fn \in ran) =>
        \A rc \in ElemCells :
            mem.a[rc[1] * arg.cols + rc[2]]
                = Combine(arg.fn, arg.a[rc[1] * arg.cols + rc[2]],
                          Load(arg.b, SizeOfB, rc[2]))

\* the CPU reference of tril: (i / k < i % (int)k) ? 0 : exp(b / 8)
trilCPUZero(i, k) == i < (i % k) * k

\* every element of the first operand stored exactly once, and nothing else
StoredExactlyOnce ==
    /\ \A i \in 0 .. SizeM - 1 : Cardinality({e \in wlog : e.a = i}) = 1
    /\ \A e \in wlog : e.buf = "a" /\ InBuf(SizeM, e.a)

C20_InPlace ==
    (arg.fn \in ran) =>
        /\ StoredExactlyOnce
        /\ arg.fn \in {"add", "multiply", "divide"} =>
              \A i \in 0 .. SizeM - 1 : mem.a[i] = Combine(arg.fn, arg.a[i], arg.b[i])
        /\ mem.b = arg.b
        /\ mem.allocs = {"a", "b"}
        /\ mem.ret = [dat |-> "a", rows |-> arg.rows, cols |-> arg.cols]

\* C20: a binary operator has run on a matrix that spans several blocks and
\* has changed it
C20_Witness ==
    /\ arg.fn \in {"add", "multiply", "divide"} /\ arg.fn \in ran
    /\ arg.rows > ElemBlockDim /\ arg.cols > ElemBlockDim
    /\ mem.a # arg.a

----------------------------------------------------------------------------
(* embeddingsCUDA: the token and positional embedding gather.              *)
(* arg = [N, DIM, tokens, wte, wpe, junk]: num_total_tokens, DIM, the      *)
(* token ids (the int array "output" of the source), the word table        *)
(* (Vocab x DIM) and the positional table (DIM x PosStride).               *)
(* mem = [line]: line.dat, N x DIM.                                        *)

\* largest num_total_tokens drawn
MaxTokens == 3
\* largest DIM drawn
MaxEmbDim == 3
\* rows of the word table
Vocab == 2
\* stride of the positional table (1024 in the source, cuda_utils.cu:247)
PosStride == 3
\* threadsPerBlock of the launch (1024 in the source, cuda_utils.cu:252)
EmbedBlockDim == 2

SizeLine == arg.N * arg.DIM
SizeWte == Vocab * arg.DIM
SizeWpe == arg.DIM * PosStride

\* int idx = blockIdx.x * blockDim.x + threadIdx.x
EmbedIdx(t) == t.bx * EmbedBlockDim + t.tx

\* the threads of embeddingsKernel<<<numBlocks, threadsPerBlock>>> that pass
\* "if (idx < num_total_tokens * DIM)"
EmbedThreads ==
    {t \in Threads(CEIL_DIV(arg.N * arg.DIM, EmbedBlockDim), 1, EmbedBlockDim, 1) :
        EmbedIdx(t) < arg.N * arg.DIM}

\* faulty variant: the positional table read token-major
EmbedPosIndexTokenMajor(i, j) == i * arg.DIM + j
\* wpe.dat[j * 1024 + i]
EmbedPosIndex(i, j) == j * PosStride + i

\* wte.dat[output[i] * DIM + j]
EmbedWordIndex(i, j) == Load(arg.tokens, arg.N, i) * arg.DIM + j

\* line.dat[i * DIM + j] = wte.dat[output[i] * DIM + j] + wpe.dat[j * 1024 + i]
\* for i = idx / DIM, j = idx % DIM
EmbedWrites ==
    {[t |-> t, k |-> 0,
      a |-> CDiv(EmbedIdx(t), arg.DIM) * arg.DIM + (EmbedIdx(t) % arg.DIM),
      v |-> Load(arg.wte, SizeWte,
                 EmbedWordIndex(CDiv(EmbedIdx(t), arg.DIM), EmbedIdx(t) % arg.DIM))
            + Load(arg.wpe, SizeWpe,
                   EmbedPosIndex(CDiv(EmbedIdx(t), arg.DIM), EmbedIdx(t) % arg.DIM))] :
        t \in EmbedThreads}

\* the loads of the kernel
EmbedReads ==
    UNION {LET i == CDiv(EmbedIdx(t), arg.DIM)
               j == EmbedIdx(t) % arg.DIM
           IN  {[t |-> t, buf |-> "output", a |-> i],
                [t |-> t, buf |-> "wte", a |-> EmbedWordIndex(i, j)],
                [t |-> t, buf |-> "wpe", a |-> EmbedPosIndex(i, j)]} :
           t \in EmbedThreads}

EmbedBufSize(buf) ==
    CASE buf = "output" -> arg.N
      [] buf = "wte" -> SizeWte
      [] buf = "wpe" -> SizeWpe
      [] buf = "line" -> SizeLine

\* embeddingsCUDA(line, wte, wpe, output, num_total_tokens, DIM)
embeddingsCUDA ==
    /\ "embeddings" \notin ran
    /\ mem' = [mem EXCEPT !.line = ApplyWrites(mem.line, SizeLine, EmbedWrites)]
    /\ wlog' = wlog \cup WriteEvents("embeddings", "line", EmbedWrites)
    /\ rlog' = rlog \cup EmbedReads
    /\ oob' = oob
          \cup {[op |-> "embeddings", buf |-> "line", a |-> w.a, kind |-> "write"] :
                   w \in {x \in EmbedWrites : ~InBuf(SizeLine, x.a)}}
          \cup {[op |-> "embeddings", buf |-> r.buf, a |-> r.a, kind |-> "read"] :
                   r \in {x \in EmbedReads : ~InBuf(EmbedBufSize(x.buf), x.a)}}
    /\ ran' = ran \cup {"embeddings"}
    /\ UNCHANGED <<arg, reported, blk>>

\* N token ids below Vocab, the two tables, and a line buffer that holds
\* something already
InitEmbed ==
    /\ \E n \in 0 .. MaxTokens, dim \in 0 .. MaxEmbDim,
          seed \in 0 .. 2 * MaxSeed + 1, junk \in JunkVals :
          arg = [N |-> n, DIM |-> dim,
                 tokens |-> [t \in 0 .. n - 1 |-> Rand(seed, t + 1) % Vocab],
                 wte |-> generateRandomMatrix(seed, Vocab * dim),
                 wpe |-> generateRandomMatrix(seed + 1, dim * PosStride),
                 junk |-> junk]
    /\ mem = [line |-> [i \in 0 .. arg.N * arg.DIM - 1 |-> arg.junk]]
    /\ ran = {}
    /\ wlog = {}
    /\ rlog = {}
    /\ oob = {}
    /\ reported = {}
    /\ blk = <<>>

NextEmbed == embeddingsCUDA

SpecEmbed == InitEmbed /\ [][NextEmbed]_vars

\* C16: after embeddingsCUDA with N tokens and dimension DIM,
\* output[t*DIM + d] = wte[tokenId[t]*DIM + d] + wpe[d*stride + t] for every
\* t < N and d < DIM; each of the N*DIM cells is stored exactly once, by one
\* thread; a thread with idx >= N*DIM loads and stores nothing; no thread
\* loads a cell another thread stores.
C16_EmbeddingGather ==
    ("embeddings" \in ran) =>
        /\ \A t \in 0 .. arg.N - 1, d \in 0 .. arg.DIM - 1 :
              mem.line[t * arg.DIM + d]
                  = arg.wte[arg.tokens[t] * arg.DIM + d] + arg.wpe[d * PosStride + t]
        /\ \A c \in 0 .. arg.N * arg.DIM - 1 : Cardinality({e \in wlog : e.a = c}) = 1
        /\ \A e \in wlog : e.buf = "line" /\ InBuf(SizeLine, e.a)
        /\ \A e \in wlog \cup rlog : EmbedIdx(e.t) < arg.N * arg.DIM
        /\ \A w \in wlog, r \in rlog : ~(r.buf = w.buf /\ r.a = w.a /\ r.t # w.t)

\* C16: a gather over several blocks whose last block has an idle thread
C16_Witness ==
    /\ "embeddings" \in ran
    /\ arg.N >= 2 /\ arg.DIM >= 2
    /\ (arg.N * arg.DIM) % EmbedBlockDim # 0
    /\ \E i \in 0 .. arg.N * arg.DIM - 1 : mem.line[i] # arg.junk

----------------------------------------------------------------------------
(* One block of matMulCudaKernelOptimized, thread by thread.               *)
(* arg = [aRows, aCols, bRows, bCols, A, B, junk, bx, by]: the operands    *)
(* and the block of the grid that is followed.                             *)
(* mem = [As, Bs, C]: the block's shared tiles and the output buffer.      *)
(* blk[t] = [pc, m, value] for each thread t of the block: where it is in  *)
(* the tile loop ("load", "sync1", "compute", "sync2", "done"), its loop   *)
(* counter and its running sum.                                            *)

\* the threads of block (bx, by): dimBlock(32, 32)
BlockThreads ==
    {[bx |-> arg.bx, by |-> arg.by, tx |-> x, ty |-> y] :
        x \in 0 .. TILE_SIZE - 1, y \in 0 .. TILE_SIZE - 1}

\* the loop test fails: "if (row < aRows && col < bRows) C[row * bRows + col] = value"
tiledStore(t) ==
    /\ blk[t].pc = "load"
    /\ blk[t].m >= NumTiles
    /\ mem' = IF CellGuard(t)
              THEN [mem EXCEPT !.C[CIndex(ThreadRow(t), ThreadCol(t))] = blk[t].value]
              ELSE mem
    /\ blk' = [blk EXCEPT ![t].pc = "done"]
    /\ UNCHANGED <<arg, ran, wlog, rlog, oob, reported>>

\* the loads of iteration m: the thread stores its cell of As and of Bs
tiledLoad(t) ==
    /\ blk[t].pc = "load"
    /\ blk[t].m < NumTiles
    /\ mem' = [mem EXCEPT !.As[t.ty][t.tx] = TiledLoadA(t, blk[t].m),
                          !.Bs[t.ty][t.tx] = TiledLoadB(t, blk[t].m)]
    /\ blk' = [blk EXCEPT ![t].pc = "sync1"]
    /\ UNCHANGED <<arg, ran, wlog, rlog, oob, reported>>

\* for (k = 0; k < TILE_SIZE; k++) value += As[threadIdx.y][k] * Bs[k][threadIdx.x]
tiledCompute(t) ==
    /\ blk[t].pc = "compute"
    /\ blk' = [blk EXCEPT ![t].pc = "sync2",
                          ![t].value = TiledInner(mem.As, mem.Bs, t, 0, blk[t].value)]
    /\ UNCHANGED <<arg, mem, ran, wlog, rlog, oob, reported>>

\* faulty variant: a barrier that lets the waiting threads go at once
BarrierNeverWaits == TRUE
\* __syncthreads(): every thread of the block has arrived at a barrier
BarrierFull == \A t \in BlockThreads : blk[t].pc \in {"sync1", "sync2"}

\* __syncthreads() releases the threads waiting at it: those at the first
\* barrier go on to compute, those at the second to the next iteration
syncthreads ==
    /\ \E t \in BlockThreads : blk[t].pc \in {"sync1", "sync2"}
    /\ BarrierFull
    /\ blk' = [t \in BlockThreads |->
                  CASE blk[t].pc = "sync1" -> [blk[t] EXCEPT !.pc = "compute"]
                    [] blk[t].pc = "sync2" -> [blk[t] EXCEPT !.pc = "load", !.m = blk[t].m + 1]
                    [] OTHER -> blk[t]]
    /\ UNCHANGED <<arg, mem, ran, wlog, rlog, oob, reported>>

\* the block has finished
tiledBlockDone ==
    /\ "block" \notin ran
    /\ \A t \in BlockThreads : blk[t].pc = "done"
    /\ ran' = ran \cup {"block"}
    /\ UNCHANGED <<arg, mem, wlog, rlog, oob, reported, blk>>

\* a launch of the tiled kernel with aCols = bCols, and one block of its
\* grid; the shared tiles hold whatever was there
InitTiled ==
    /\ \E ar \in {1, TILE_SIZE + 1}, br \in {1, TILE_SIZE},
          ac \in 0 .. MaxDim, junk \in JunkVals :
       \E bx \in 0 .. CEIL_DIV(br, TILE_SIZE) - 1, by \in 0 .. CEIL_DIV(ar, TILE_SIZE) - 1 :
          arg = [aRows |-> ar, aCols |-> ac, bRows |-> br, bCols |-> ac,
                 A |-> generateRandomMatrix(0, ar * ac),
                 B |-> generateRandomMatrix(1, br * ac),
                 junk |-> junk, bx |-> bx, by |-> by]
    /\ mem = [As |-> [y \in 0 .. TILE_SIZE - 1 |-> [x \in 0 .. TILE_SIZE - 1 |-> arg.junk]],
              Bs |-> [y \in 0 .. TILE_SIZE - 1 |-> [x \in 0 .. TILE_SIZE - 1 |-> arg.junk]],
              C |-> [i \in 0 .. SizeC - 1 |-> arg.junk]]
    /\ blk = [t \in BlockThreads |-> [pc |-> "load", m |-> 0, value |-> 0]]
    /\ ran = {}
    /\ wlog = {}
    /\ rlog = {}
    /\ oob = {}
    /\ reported = {}

NextTiled ==
    \/ \E t \in BlockThreads : tiledLoad(t)
    \/ \E t \in BlockThreads : tiledCompute(t)
    \/ \E t \in BlockThreads : tiledStore(t)
    \/ syncthreads
    \/ tiledBlockDone

SpecTiled == InitTiled /\ [][NextTiled]_vars

\* the iterations whose cell thread t has stored
LoadsDone(t) ==
    IF blk[t].pc \in {"sync1", "compute", "sync2"} THEN blk[t].m + 1 ELSE blk[t].m

\* the iterations whose compute phase thread t has entered
ComputesBegun(t) ==
    IF blk[t].pc \in {"compute", "sync2"} THEN blk[t].m + 1 ELSE blk[t].m

\* the iterations whose compute phase thread t has finished
ComputesDone(t) ==
    IF blk[t].pc = "sync2" THEN blk[t].m + 1 ELSE blk[t].m

\* C18: in every iteration m no thread reads the shared tiles in the compute
\* phase before every thread of its block has stored its cell for m, and no
\* thread stores its cell for m + 1 before every thread has finished the
\* compute phase of m; threads whose row or column is out of range take
\* part in the loads and in both barriers, so the tiles a thread computes on
\* are complete and the cell it stores in C is the full sum.
C18_BarrierSeparatesPhases ==
    /\ \A t \in BlockThreads, u \in BlockThreads :
          /\ ComputesBegun(t) <= LoadsDone(u)
          /\ LoadsDone(t) <= ComputesDone(u) + 1
    /\ \A t \in BlockThreads :
          blk[t].pc = "compute" =>
              /\ mem.As = TileAs(arg.bx, arg.by, blk[t].m)
              /\ mem.Bs = TileBs(arg.bx, arg.by, blk[t].m)
    /\ \A t \in BlockThreads :
          (blk[t].pc = "done" /\ CellGuard(t)) =>
              mem.C[CIndex(ThreadRow(t), ThreadCol(t))] = TiledLoop(t, 0, 0)

\* C18: a block with a thread out of range, in its second iteration, one
\* thread computing while another has finished computing
C18_Witness ==
    /\ \E t \in BlockThreads : ~CellGuard(t)
    /\ \E t \in BlockThreads, u \in BlockThreads :
          /\ blk[t].pc = "compute" /\ blk[t].m = 1
          /\ blk[u].pc = "sync2"
          /\ ~CellGuard(u)

\* the block of the thread of an access
BlockOf(e) == <<e.t.bx, e.t.by>>

\* C17, for the elementwise kernels: the addresses distinct blocks store to
\* are disjoint, and no block loads an address another block stores to.
C17_NoCrossBlockSharing ==
    \A w \in wlog, e \in wlog \cup rlog :
        (e.buf = "a" /\ e.a = w.a) => BlockOf(e) = BlockOf(w)

\* C17, what the code does satisfy: the same, for every elementwise kernel
\* but broadcast, whose blocks all load column 0 of their rows, the cells
\* the blocks of column 0 store to.
NoCrossBlockSharingButBroadcast ==
    arg.fn # "broadcast" =>
        \A w \in wlog, e \in wlog \cup rlog :
            (e.buf = "a" /\ e.a = w.a) => BlockOf(e) = BlockOf(w)

----------------------------------------------------------------------------
(* Device allocations of the host entry points.                            *)
(* mem = [live]: the device allocations that are live, each a handle       *)
(* [fn, x, call] (the pointer variable x of call number `call` of fn).     *)
(* arg = [prior]: the allocations the caller made before the sequence.     *)
(* wlog is the sequence of the entry points called so far.                 *)
(* Each action is one whole call; what the calls compute is the subject of *)
(* the other specifications.                                               *)

\* longest sequence of calls
MaxCalls == 3
\* most allocations live before the sequence
MaxPrior == 1

\* the cudaMalloc and cudaFree statements of an entry point, in program order
AllocStmts(fn) ==
    CASE fn \in {"matMulCUDANaive", "matMulCublas"} ->
           << [stmt |-> "cudaMalloc", x |-> "d_A"],
              [stmt |-> "cudaMalloc", x |-> "d_B"],
              [stmt |-> "cudaMalloc", x |-> "d_C"],
              [stmt |-> "cudaFree",   x |-> "d_A"],
              [stmt |-> "cudaFree",   x |-> "d_B"],
              [stmt |-> "cudaFree",   x |-> "d_C"] >>
      [] fn = "transposeCUDA_util" ->
           << [stmt |-> "cudaMalloc", x |-> "d_input"],
              [stmt |-> "cudaMalloc", x |-> "d_output"],
              [stmt |-> "cudaFree",   x |-> "d_input"],
              [stmt |-> "cudaFree",   x |-> "d_output"] >>
      [] fn = "softmaxSampleCUDA" ->
           SelectSeq(softmaxSampleCUDA,
                     LAMBDA st : st.stmt \in {"cudaMalloc", "cudaFree"})

\* the handle cudaMalloc stores in pointer variable x of call number n of fn
Handle(fn, x, n) == [fn |-> fn, x |-> x, call |-> n]

\* the live allocations after statements i .. of call number n of fn
RECURSIVE LiveAfter(_, _, _, _)
LiveAfter(live, fn, n, i) ==
    IF i > Len(AllocStmts(fn)) THEN live
    ELSE LET st == AllocStmts(fn)[i]
             h == Handle(fn, st.x, n)
         IN  LiveAfter(IF st.stmt = "cudaMalloc" THEN live \cup {h} ELSE live \ {h},
                       fn, n, i + 1)

\* one call of an entry point, from entry to return
HostCall(fn) ==
    /\ Len(wlog) < MaxCalls
    /\ mem' = [mem EXCEPT !.live = LiveAfter(mem.live, fn, Len(wlog) + 1, 1)]
    /\ wlog' = Append(wlog, fn)
    /\ ran' = ran \cup {fn}
    /\ UNCHANGED <<arg, rlog, oob, reported, blk>>

matMulCUDANaiveCall == HostCall("matMulCUDANaive")

matMulCublasCall == HostCall("matMulCublas")

transposeCUDA_utilCall == HostCall("transposeCUDA_util")

softmaxSampleCUDACall == HostCall("softmaxSampleCUDA")

\* the allocations the caller holds before the sequence begins
PriorLive(n) == {Handle("caller", "dat", -i) : i \in 1 .. n}

InitAlloc ==
    /\ \E prior \in 0 .. MaxPrior : arg = [prior |-> prior]
    /\ mem = [live |-> PriorLive(arg.prior)]
    /\ wlog = <<>>
    /\ ran = {}
    /\ rlog = {}
    /\ oob = {}
    /\ reported = {}
    /\ blk = <<>>

NextAlloc ==
    \/ matMulCUDANaiveCall
    \/ matMulCublasCall
    \/ transposeCUDA_utilCall
    \/ softmaxSampleCUDACall

SpecAlloc == InitAlloc /\ [][NextAlloc]_vars

\* the calls of fn made so far
CallsOf(fn) == Cardinality({i \in DOMAIN wlog : wlog[i] = fn})

\* C21: after any sequence of calls to matMulCUDANaive, matMulCublas,
\* transposeCUDA_util and softmaxSampleCUDA the number of live device
\* allocations equals the number live before the sequence began.
C21_AllocationsReleased ==
    Cardinality(mem.live) = arg.prior

\* C21, what the code does satisfy: the three matrix entry points release
\* what they allocate, and every call of softmaxSampleCUDA leaves its three
\* allocations (dev_max_val, dev_sum, dev_out) live.
AllocationsLeakedPerSample ==
    /\ Cardinality(mem.live) = arg.prior + 3 * CallsOf("softmaxSampleCUDA")
    /\ \A h \in mem.live : h.fn \in {"caller", "softmaxSampleCUDA"}

----------------------------------------------------------------------------
(* The kernels that use __syncthreads, thread by thread under fair         *)
(* scheduling.                                                             *)
(* arg = [kernel, aCols, rows, length, data, acc0, b]: the kernel          *)
(* launched, the arguments its loop bounds read and the block b of the     *)
(* grid whose threads are followed; a barrier involves one block only.     *)
(* In findMaxKernel thread 0 of every block goes on to atomicMax; thread 0 *)
(* of the blocks other than b is followed from that call on.               *)
(* blk[t] = [pc, n, old, tries] for each thread t = [b, tid]: "run"        *)
(* (between barriers), "wait" (at a barrier), "read" and "cas" (in         *)
(* atomicMax), "done"; the barriers it has passed; the accumulator value   *)
(* it read last; its compare-and-swap attempts.                            *)
(* mem = [max_abs_val]; wlog is the sequence of compare-and-swap events    *)
(* [b, ok].                                                                *)

BarrierKernels ==
    {"matMulCudaKernelOptimized", "sumCudaKernel", "transposeKernel", "findMaxKernel"}

\* threads per block of the launch of a kernel: dimBlock(32, 32),
\* dimBlock(256, 1), dimBlock(TILE_DIM, TILE_DIM / 4), dimBlock(256, 1)
BlockSize(kernel) ==
    CASE kernel = "matMulCudaKernelOptimized" -> TILE_SIZE * TILE_SIZE
      [] kernel = "sumCudaKernel" -> SumBlockDim
      [] kernel = "transposeKernel" -> TILE_DIM * TransposeBlockRows
      [] kernel = "findMaxKernel" -> MaxBlockDim

\* blocks of the launch that the loop bounds of a kernel distinguish
GridSize(kernel) ==
    CASE kernel = "sumCudaKernel" -> SumGridDim
      [] kernel = "findMaxKernel" -> MaxGridDim
      [] OTHER -> 1

\* the threads of the followed block
FollowedThreads == {[b |-> arg.b, tid |-> i] : i \in 0 .. BlockSize(arg.kernel) - 1}

\* the threads that call atomicMax: "if (tid == 0) atomicMax(max_abs_val, sdata[0])"
Leaders ==
    IF arg.kernel = "findMaxKernel"
    THEN {[b |-> c, tid |-> 0] : c \in 0 .. MaxGridDim - 1}
    ELSE {}

\* faulty variant: the second barrier of the row sum inside "if (threadIdx.x == 0)"
ReachesBarrierInBranch(site, tid) == site = "sum:158" => tid = 0
\* whether thread tid executes the barrier at a site its block's loop comes
\* to: every __syncthreads() is outside the conditionals on the thread index
ReachesBarrier(site, tid) == TRUE

\* for (m = 0; m < (aCols - 1) / TILE_SIZE + 1; m++) { .. __syncthreads(); .. __syncthreads(); }
RECURSIVE TiledSites(_)
TiledSites(m) ==
    IF m < NumTiles THEN <<"matMul:76", "matMul:81">> \o TiledSites(m + 1) ELSE <<>>

\* for (row = blockIdx.x; row < rows; row += gridDim.x) { .. __syncthreads(); .. __syncthreads(); }
RECURSIVE SumSites(_)
SumSites(row) ==
    IF row < arg.rows THEN <<"sum:148", "sum:158">> \o SumSites(row + SumGridDim) ELSE <<>>

\* for (s = blockDim.x / 2; s > 0; s >>= 1) { .. __syncthreads(); }
RECURSIVE ReduceSites(_)
ReduceSites(s) ==
    IF s > 0 THEN <<"findMax:289">> \o ReduceSites(s \div 2) ELSE <<>>

\* the barrier sites the control flow of thread t comes to, in order
LoopSites(t) ==
    CASE arg.kernel = "matMulCudaKernelOptimized" -> TiledSites(0)
      [] arg.kernel = "sumCudaKernel" -> SumSites(t.b)
      [] arg.kernel = "transposeKernel" -> <<"transpose:195">>
      [] arg.kernel = "findMaxKernel" -> <<"findMax:283">> \o ReduceSites(MaxBlockDim \div 2)

\* the barriers thread t executes, in order
BarrierSites(t) ==
    SelectSeq(LoopSites(t), LAMBDA site : ReachesBarrier(site, t.tid))

\* the thread runs up to its next __syncthreads()
threadArrives(t) ==
    /\ blk[t].pc = "run"
    /\ blk[t].n < Len(BarrierSites(t))
    /\ blk' = [blk EXCEPT ![t].pc = "wait"]
    /\ UNCHANGED <<arg, mem, ran, wlog, rlog, oob, reported>>

\* the thread runs past its last barrier to the end of the kernel, or, as
\* thread 0 of findMaxKernel, into atomicMax
threadLeaves(t) ==
    /\ blk[t].pc = "run"
    /\ blk[t].n >= Len(BarrierSites(t))
    /\ blk' = [blk EXCEPT ![t].pc = IF t \in Leaders THEN "read" ELSE "done"]
    /\ UNCHANGED <<arg, mem, ran, wlog, rlog, oob, reported>>

\* __syncthreads(): the barrier releases the threads of the block once all
\* of them wait at it
blockSyncthreads ==
    /\ \E t \in FollowedThreads : blk[t].pc = "wait"
    /\ \A t \in FollowedThreads : blk[t].pc = "wait"
    /\ blk' = [t \in DOMAIN blk |->
                  IF t \in FollowedThreads
                  THEN [blk[t] EXCEPT !.pc = "run", !.n = blk[t].n + 1]
                  ELSE blk[t]]
    /\ UNCHANGED <<arg, mem, ran, wlog, rlog, oob, reported>>

\* atomicMax: int old = *address_as_i
leaderAtomicMaxRead(t) ==
    /\ blk[t].pc = "read"
    /\ blk' = [blk EXCEPT ![t].pc = "cas", ![t].old = mem.max_abs_val]
    /\ UNCHANGED <<arg, mem, ran, wlog, rlog, oob, reported>>

\* atomicMax: do { assumed = old; old = atomicCAS(address_as_i, assumed, ..); }
\*            while (assumed != old)
leaderAtomicMaxCAS(t) ==
    /\ blk[t].pc = "cas"
    /\ LET assumed == blk[t].old
           old == mem.max_abs_val
           new == FloatAsInt(fmaxf(BlockMax(t.b), IntAsFloat(assumed)))
       IN  /\ mem' = [mem EXCEPT !.max_abs_val = atomicCAS(old, assumed, new)]
           /\ blk' = [blk EXCEPT ![t].old = old,
                                 ![t].tries = blk[t].tries + 1,
                                 ![t].pc = IF assumed # old THEN "cas" ELSE "done"]
           /\ wlog' = Append(wlog, [b |-> t.b, ok |-> assumed = old])
    /\ UNCHANGED <<arg, ran, rlog, oob, reported>>

\* the kernel has finished when every thread has
kernelDone ==
    /\ "kernel" \notin ran
    /\ \A t \in DOMAIN blk : blk[t].pc = "done"
    /\ ran' = ran \cup {"kernel"}
    /\ UNCHANGED <<arg, mem, wlog, rlog, oob, reported, blk>>

\* a launch of one of the four kernels and the block that is followed
InitFair ==
    /\ \E kernel \in BarrierKernels :
       \E b \in 0 .. GridSize(kernel) - 1,
          aCols \in (IF kernel = "matMulCudaKernelOptimized" THEN 0 .. MaxDim ELSE {1}),
          rows \in (IF kernel = "sumCudaKernel" THEN 0 .. MaxDim ELSE {1}),
          n \in (IF kernel = "findMaxKernel" THEN 0 .. MaxLen ELSE {0}),
          acc0 \in (IF kernel = "findMaxKernel" THEN AccInit ELSE {0}) :
          arg = [kernel |-> kernel, aCols |-> aCols, rows |-> rows, length |-> n,
                 data |-> generateRandomMatrix(0, n), acc0 |-> acc0, b |-> b]
    /\ mem = [max_abs_val |-> arg.acc0]
    /\ blk = [t \in FollowedThreads \cup Leaders |->
                 [pc |-> IF t \in FollowedThreads THEN "run" ELSE "read",
                  n |-> 0, old |-> 0, tries |-> 0]]
    /\ ran = {}
    /\ wlog = <<>>
    /\ rlog = {}
    /\ oob = {}
    /\ reported = {}

NextFair ==
    \/ \E t \in DOMAIN blk : threadArrives(t)
    \/ \E t \in DOMAIN blk : threadLeaves(t)
    \/ blockSyncthreads
    \/ \E t \in DOMAIN blk : leaderAtomicMaxRead(t)
    \/ \E t \in DOMAIN blk : leaderAtomicMaxCAS(t)
    \/ kernelDone

\* fair scheduling: a step that can be taken is eventually taken
SpecFair == InitFair /\ [][NextFair]_vars /\ WF_vars(NextFair)

\* all threads of the followed block execute the same barriers
UniformBarriers ==
    \A t \in FollowedThreads : BarrierSites(t) = BarrierSites([b |-> arg.b, tid |-> 0])

\* every failed compare-and-swap of a block follows a successful one of
\* another block that came after the block's previous attempt, and no block
\* attempts more often than there are blocks
FailedCASCaused ==
    /\ \A i \in DOMAIN wlog :
          ~wlog[i].ok =>
              \E j \in 1 .. i - 1 :
                  /\ wlog[j].b # wlog[i].b /\ wlog[j].ok
                  /\ \A k \in j .. i - 1 : wlog[k].b # wlog[i].b
    /\ \A t \in DOMAIN blk : blk[t].tries <= MaxGridDim

\* every thread has left the kernel
KernelTerminated == \A t \in DOMAIN blk : blk[t].pc = "done"

\* C22: under fair scheduling every launched kernel terminates: in the
\* tiled matmul, the row sum, the transpose and the global max all threads
\* of a block execute the same barriers for every input shape, so no thread
\* waits forever at a barrier, and every block's atomicMax retry loop ends,
\* each failed compare-and-swap following another block's successful one.
C22_KernelsTerminate ==
    /\ [](UniformBarriers /\ FailedCASCaused)
    /\ <>KernelTerminated

\* C22: findMaxKernel has finished after the followed block passed its
\* barriers and a block had to retry its compare-and-swap
C22_Witness ==
    /\ "kernel" \in ran
    /\ arg.kernel = "findMaxKernel"
    /\ \A t \in FollowedThreads : blk[t].n >= 2
    /\ \E t \in Leaders : blk[t].tries >= 2

----------------------------------------------------------------------------
(* The row-sum stage of softmaxSampleCUDA.                                 *)

\* the total of the first n entries of a.dat on the device
RECURSIVE InputTotal(_)
InputTotal(n) == IF n = 0 THEN 0 ELSE InputTotal(n - 1) + mem.input[n - 1]

\* the row sum has been copied back and the division has not yet changed
\* the exponentiated entries
SumCopiedBeforeDivide ==
    Happened("sum", "copy") /\ ~Happened("divide_const", "end")

\* C23: for every Matrix a with a.rows >= 1 and a.cols >= 1, every store of
\* the row-sum stage (output[row * cols], row < a.rows) lands inside the
\* one-float dev_sum buffer, and the value copied back into sum is the total
\* of the entries that were exponentiated.
C23_SumStageInsideDevSum ==
    /\ \A e \in oob : ~(e.op = "sum" /\ e.buf = "dev_sum")
    /\ SumCopiedBeforeDivide => mem.sum = InputTotal(arg.rows * arg.cols)

\* C23, what the code does satisfy: the stores of the rows after the first
\* fall outside dev_sum, at the indices row * cols, and the value copied
\* back is the total of the first row alone.
SumStageIsFirstRowOnly ==
    /\ \A e \in oob :
          (e.op = "sum" /\ e.buf = "dev_sum") =>
              \E row \in 1 .. arg.rows - 1 : e.a = row * arg.cols
    /\ Happened("sumCudaKernel", "end") =>
          \A row \in 1 .. arg.rows - 1 :
              \E e \in oob : e.op = "sum" /\ e.buf = "dev_sum" /\ e.a = row * arg.cols
    /\ SumCopiedBeforeDivide => mem.sum = InputTotal(arg.cols)

====
